---- MODULE Spec2Model ----
(***************************************************************************)
(* kube-wild (kubectl-wild): the name/label/namespace/pod-health filter    *)
(* engine (Matcher, fuzzy distance, structured filters) and the            *)
(* runCommand driver that discovers candidates, filters them and issues    *)
(* the kubectl calls.                                                       *)
(*                                                                         *)
(* Go strings are TLA+ strings; Len, SubSeq, Head, Tail and \o act on them *)
(* bytewise as Go's len, s[i:j], s[0], s[1:] and + do on ASCII text.       *)
(* Go's 0-based index i is index i+1 here.                                  *)
(***************************************************************************)
EXTENDS Integers, Sequences, FiniteSets, TLC

VARIABLES
    opts,      \* the CLIOptions runCommand is handed (the filter specification)
    matcher,   \* the Matcher runCommand built from opts
    args,      \* the arguments the function under test is applied to
    pool,      \* levenshteinPool: the pooled levenshteinRows objects
    call,      \* the last function application: [fn, ret]
    items,     \* the items kubectl get lists for the resource
    resourceScopeCache,  \* runner.go's cache: lower-cased resource -> namespaced?
    refs,      \* runCommand's refs: the NameRefs discovered
    idx,       \* the position of the filter loop in refs
    matched,   \* runCommand's matched
    pc,        \* where runCommand is: "start", "filter", "prompt", "done"
    log,       \* the runner calls, messages and input so far
    ret        \* what runCommand returned: "nil", "error", "panic"

runVars == <<items, resourceScopeCache, refs, idx, matched, pc, log, ret>>
vars == <<opts, matcher, args, pool, call, runVars>>

(***************************************************************************)
(* Bounds of the model.                                                     *)
(***************************************************************************)
MaxStrLen == 3       \* longest string handed to the distance functions
MaxDist == 2         \* largest maxDist handed to levenshteinBounded
MaxPooled == 1       \* pooled row objects kept (sync.Pool may drop any)
MaxIncludes == 2     \* longest include list
MaxFilters == 2      \* longest label (annotation) filter list
MaxItems == 2        \* most items kubectl lists
MaxStatuses == 2     \* longest list of requested pod statuses
MaxThreshold == 1    \* largest ConfirmThreshold
MaxVal == 3          \* largest count handed to compareIntExpr
MaxTicks == 1        \* how far the clock moves on while two runs are observed
MaxTargets == 4      \* longest target list handed to runBatched
MaxBatch == 3        \* largest batchSize handed to runBatched
MaxFlags == 3        \* longest flag list handed to filterOutputFlags
MaxArgv == 4         \* longest argument vector handed to parseArgs
MaxCalls == 3        \* longest sequence of distance calls sharing the pool
Now == 3             \* the clock when the filter loop runs

(***************************************************************************)
(* strings helpers (Go's strings package on ASCII)                          *)
(***************************************************************************)
CharAt(s, i) == SubSeq(s, i, i)

Min2(a, b) == IF a < b THEN a ELSE b

min3(a, b, c) ==
    IF a < b
    THEN (IF a < c THEN a ELSE c)
    ELSE (IF b < c THEN b ELSE c)

RECURSIVE StringsUpTo(_, _)
StringsUpTo(alphabet, n) ==
    IF n = 0 THEN {""}
    ELSE LET S == StringsUpTo(alphabet, n - 1)
         IN  S \cup {s \o c : s \in S, c \in alphabet}

\* printable ASCII in code order: 0x20..0x5F and 0x61..0x7E (a TLA+ string
\* cannot hold the backquote, 0x60); Code(c) is the byte value of c
AsciiLow == " !\"#$%&'()*+,-./0123456789:;<=>?@ABCDEFGHIJKLMNOPQRSTUVWXYZ[\\]^_"
AsciiHigh == "abcdefghijklmnopqrstuvwxyz{|}~"
UpperLetters == "ABCDEFGHIJKLMNOPQRSTUVWXYZ"

\* the byte value of each character, as a table
CodeOf ==
    [c \in {CharAt(AsciiLow, i) : i \in 1..Len(AsciiLow)}
            \cup {CharAt(AsciiHigh, i) : i \in 1..Len(AsciiHigh)} |->
        IF \E i \in 1..Len(AsciiLow) : CharAt(AsciiLow, i) = c
        THEN 31 + (CHOOSE i \in 1..Len(AsciiLow) : CharAt(AsciiLow, i) = c)
        ELSE 96 + (CHOOSE i \in 1..Len(AsciiHigh) : CharAt(AsciiHigh, i) = c)]

Code(c) == CodeOf[c]

\* unicode.ToLower on the upper-case letters, as a table
LowerOf ==
    [c \in {CharAt(UpperLetters, i) : i \in 1..26} |->
        CharAt(AsciiHigh, CHOOSE i \in 1..26 : CharAt(UpperLetters, i) = c)]

\* unicode.ToLower on one ASCII byte
LowerChar(c) == IF c \in DOMAIN LowerOf THEN LowerOf[c] ELSE c

\* strings.ToLower
RECURSIVE ToLower(_)
ToLower(s) == IF s = "" THEN "" ELSE LowerChar(Head(s)) \o ToLower(Tail(s))

\* strings.EqualFold
EqualFold(s, t) ==
    /\ Len(s) = Len(t)
    /\ \A i \in 1..Len(s) : LowerChar(CharAt(s, i)) = LowerChar(CharAt(t, i))

\* strings.HasPrefix
HasPrefix(s, prefix) ==
    Len(prefix) <= Len(s) /\ SubSeq(s, 1, Len(prefix)) = prefix

\* strings.Contains
Contains(s, substr) ==
    \E i \in 0..(Len(s) - Len(substr)) : SubSeq(s, i + 1, i + Len(substr)) = substr

IsSpace(c) == c \in {" ", "\t", "\n", "\r"}

\* strings.TrimSpace
RECURSIVE TrimLeft(_)
TrimLeft(s) == IF s # "" /\ IsSpace(Head(s)) THEN TrimLeft(Tail(s)) ELSE s

RECURSIVE TrimRight(_)
TrimRight(s) ==
    IF s # "" /\ IsSpace(CharAt(s, Len(s)))
    THEN TrimRight(SubSeq(s, 1, Len(s) - 1))
    ELSE s

TrimSpace(s) == TrimRight(TrimLeft(s))

Drop(s, n) == SubSeq(s, n + 1, Len(s))

\* every order a range over a map with these keys can take
Orders(keys) ==
    {order \in [1..Cardinality(keys) -> keys] :
        \A i, j \in 1..Cardinality(keys) : i # j => order[i] # order[j]}

(***************************************************************************)
(* path.Match: shell-style glob over the whole name.  '*' is any run of     *)
(* non-'/' bytes, '?' one non-'/' byte, '[...]' a class, '\c' the byte c.  *)
(* A malformed pattern reports ErrBadPattern with matched = false; the     *)
(* callers drop the error.                                                  *)
(***************************************************************************)
\* getEsc: one class bound at the head of chunk: [ok, c, rest]
GetEsc(chunk) ==
    IF chunk = "" \/ Head(chunk) = "-" \/ Head(chunk) = "]"
    THEN [ok |-> FALSE, c |-> "", rest |-> ""]
    ELSE LET body == IF Head(chunk) = "\\" THEN Tail(chunk) ELSE chunk
         IN  IF body = "" \/ Tail(body) = ""
             THEN [ok |-> FALSE, c |-> "", rest |-> ""]
             ELSE [ok |-> TRUE, c |-> Head(body), rest |-> Tail(body)]

\* the ranges of a class, chunk standing after '[' and '^':
\* [ok, match (r lies in a range), rest (after the closing ']')]
RECURSIVE ClassRanges(_, _, _, _)
ClassRanges(chunk, r, nrange, match) ==
    IF chunk # "" /\ Head(chunk) = "]" /\ nrange > 0
    THEN [ok |-> TRUE, match |-> match, rest |-> Tail(chunk)]
    ELSE LET lo == GetEsc(chunk)
         IN  IF ~lo.ok THEN [ok |-> FALSE, match |-> FALSE, rest |-> ""]
             ELSE IF Head(lo.rest) = "-"
                  THEN LET hi == GetEsc(Tail(lo.rest))
                       IN  IF ~hi.ok THEN [ok |-> FALSE, match |-> FALSE, rest |-> ""]
                           ELSE ClassRanges(hi.rest, r, nrange + 1,
                                    match \/ (r # "" /\ Code(lo.c) <= Code(r)
                                                     /\ Code(r) <= Code(hi.c)))
                  ELSE ClassRanges(lo.rest, r, nrange + 1,
                                   match \/ (r # "" /\ lo.c = r))

RECURSIVE GlobMatch(_, _)
GlobMatch(pattern, name) ==
    IF pattern = "" THEN name = ""
    ELSE LET c == Head(pattern)
         IN  IF c = "*"
             THEN \E k \in 0..Len(name) :
                     /\ \A i \in 1..k : CharAt(name, i) # "/"
                     /\ GlobMatch(Tail(pattern), Drop(name, k))
             ELSE IF c = "?"
             THEN name # "" /\ Head(name) # "/" /\ GlobMatch(Tail(pattern), Tail(name))
             ELSE IF c = "["
             THEN LET negated == Tail(pattern) # "" /\ Head(Tail(pattern)) = "^"
                      cls == ClassRanges(Drop(pattern, IF negated THEN 2 ELSE 1),
                                         IF name = "" THEN "" ELSE Head(name), 0, FALSE)
                  IN  /\ cls.ok
                      /\ name # ""
                      /\ cls.match # negated
                      /\ GlobMatch(cls.rest, Tail(name))
             ELSE IF c = "\\"
             THEN /\ Tail(pattern) # ""
                  /\ name # ""
                  /\ Head(Tail(pattern)) = Head(name)
                  /\ GlobMatch(Drop(pattern, 2), Tail(name))
             ELSE name # "" /\ c = Head(name) /\ GlobMatch(Tail(pattern), Tail(name))

(***************************************************************************)
(* regexp: the patterns of the model are the fragment                       *)
(*     ['^'] (atom ['*' | '?'])* ['$']    atom: an ordinary byte, or '.'    *)
(* of Go's syntax, and patterns Go rejects too (a repetition operator with  *)
(* nothing before it, an unclosed "(" or "[").  RegexCompiles is not used   *)
(* on any other pattern.  A compiled regexp is [src, fold]: fold is the     *)
(* inline flag (?i).                                                        *)
(***************************************************************************)
RegexMeta == {"(", ")", "[", "]", "{", "}", "+", "?", "|", "\\", "*", "^", "$"}

RECURSIVE RegexBodyOk(_)
RegexBodyOk(p) ==
    IF p = "" THEN TRUE
    ELSE IF p = "$" THEN TRUE
    ELSE IF Head(p) \in RegexMeta THEN FALSE
    ELSE IF Tail(p) # "" /\ Head(Tail(p)) \in {"*", "?"} THEN RegexBodyOk(Drop(p, 2))
    ELSE RegexBodyOk(Tail(p))

\* does regexp.Compile accept the pattern?
RegexCompiles(p) ==
    RegexBodyOk(IF p # "" /\ Head(p) = "^" THEN Tail(p) ELSE p)

\* regexp.MustCompile(p), and regexp.MustCompile("(?i)" + p)
Compile(p) == [src |-> p, fold |-> FALSE]
CompileFold(p) == [src |-> p, fold |-> TRUE]

AtomMatches(atom, c, fold) ==
    \/ atom = "." /\ c # "\n"
    \/ atom = c
    \/ fold /\ LowerChar(atom) = LowerChar(c)

RECURSIVE MatchHere(_, _, _)
MatchHere(p, text, fold) ==
    IF p = "" THEN TRUE
    ELSE IF p = "$" THEN text = ""
    ELSE IF Tail(p) # "" /\ Head(Tail(p)) = "*"
    THEN \E k \in 0..Len(text) :
            /\ \A i \in 1..k : AtomMatches(Head(p), CharAt(text, i), fold)
            /\ MatchHere(Drop(p, 2), Drop(text, k), fold)
    ELSE IF Tail(p) # "" /\ Head(Tail(p)) = "?"
    THEN \/ MatchHere(Drop(p, 2), text, fold)
         \/ /\ text # ""
            /\ AtomMatches(Head(p), Head(text), fold)
            /\ MatchHere(Drop(p, 2), Tail(text), fold)
    ELSE /\ text # ""
         /\ AtomMatches(Head(p), Head(text), fold)
         /\ MatchHere(Tail(p), Tail(text), fold)

\* (*Regexp).MatchString: unanchored search
MatchString(re, text) ==
    IF re.src # "" /\ Head(re.src) = "^"
    THEN MatchHere(Tail(re.src), text, re.fold)
    ELSE \E k \in 0..Len(text) : MatchHere(re.src, Drop(text, k), re.fold)

(***************************************************************************)
(* Fuzzy distance engine: levenshteinPool, levenshteinBounded, levenshtein  *)
(***************************************************************************)
PoolInitCap == 64

Zeros(n) == [j \in 1..n |-> 0]

\* levenshteinPool.New
NewRows == [prev |-> Zeros(PoolInitCap), curr |-> Zeros(PoolInitCap)]

\* cap(rows.prev) < needed: both rows are reallocated
EnsureRows(rows, needed) ==
    IF Len(rows.prev) < needed
    THEN [prev |-> Zeros(needed), curr |-> Zeros(needed)]
    ELSE rows

\* a first row taken from the pool as it is
InitPrev_StaleRowKept(prev, lb) == prev

\* variant: the initialisation stops one cell short, for j < lb
InitPrev_LastCellSkipped(prev, lb) ==
    [k \in 1..Len(prev) |-> IF k <= lb THEN k - 1 ELSE prev[k]]

\* for j := 0; j <= lb; j++ { prev[j] = j }
InitPrev(prev, lb) ==
    [k \in 1..Len(prev) |-> IF k <= lb + 1 THEN k - 1 ELSE prev[k]]

\* the inner loop over j = 1..lb of row i, writing curr[j] in place
RECURSIVE FillRow(_, _, _, _, _)
FillRow(prev, curr, ca, b, j) ==
    IF j > Len(b) THEN curr
    ELSE LET cost == IF ca # CharAt(b, j) THEN 1 ELSE 0
             del  == prev[j + 1] + 1
             ins  == curr[j] + 1
             sub  == prev[j] + cost
         IN  CHOOSE row \in {FillRow(prev, written, ca, b, j + 1) :
                                written \in {[curr EXCEPT ![j + 1] = min3(del, ins, sub)]}} : TRUE

\* curr[0] = i, then the inner loop
ComputeRow(prev, curr, a, b, i) ==
    FillRow(prev, [curr EXCEPT ![1] = i], CharAt(a, i), b, 1)

\* minInRow: curr[0] and every curr[j] written in the row
RECURSIVE MinInRow(_, _, _)
MinInRow(curr, lb, j) ==
    IF j > lb THEN curr[1]
    ELSE Min2(curr[j + 1], MinInRow(curr, lb, j + 1))

\* the outer loop of levenshteinBounded from row i on; yields the returned
\* value and the rows handed back to the pool
RECURSIVE BoundedLoop(_, _, _, _, _, _)
BoundedLoop(a, b, maxDist, i, prev, curr) ==
    IF i > Len(a)
    THEN [ret |-> prev[Len(b) + 1], rows |-> [prev |-> prev, curr |-> curr]]
    ELSE CHOOSE res \in
             {IF MinInRow(row, Len(b), 1) > maxDist
              THEN [ret |-> maxDist + 1, rows |-> [prev |-> prev, curr |-> row]]
              ELSE BoundedLoop(a, b, maxDist, i + 1, row, prev) :
                  row \in {ComputeRow(prev, curr, a, b, i)}} : TRUE

AbsDiff(x, y) == IF x < y THEN y - x ELSE x - y

\* does the call reach levenshteinPool.Get()?
BoundedUsesPool(a, b, maxDist) ==
    /\ a # b
    /\ Len(a) # 0
    /\ Len(b) # 0
    /\ AbsDiff(Len(a), Len(b)) <= maxDist

\* variant: the length shortcut already fires at a difference of maxDist
levenshteinBoundedOn_ShortcutAtThreshold(rows, a, b, maxDist) ==
    IF a = b THEN [ret |-> 0, rows |-> rows]
    ELSE IF Len(a) = 0 THEN [ret |-> Len(b), rows |-> rows]
    ELSE IF Len(b) = 0 THEN [ret |-> Len(a), rows |-> rows]
    ELSE IF AbsDiff(Len(a), Len(b)) >= maxDist
         THEN [ret |-> maxDist + 1, rows |-> rows]
    ELSE LET r == EnsureRows(rows, Len(b) + 1)
         IN  BoundedLoop(a, b, maxDist, 1, InitPrev(r.prev, Len(b)), r.curr)

levenshteinBoundedOn(rows, a, b, maxDist) ==
    IF a = b THEN [ret |-> 0, rows |-> rows]
    ELSE IF Len(a) = 0 THEN [ret |-> Len(b), rows |-> rows]
    ELSE IF Len(b) = 0 THEN [ret |-> Len(a), rows |-> rows]
    ELSE IF AbsDiff(Len(a), Len(b)) > maxDist
         THEN [ret |-> maxDist + 1, rows |-> rows]
    ELSE LET r == EnsureRows(rows, Len(b) + 1)
         IN  BoundedLoop(a, b, maxDist, 1, InitPrev(r.prev, Len(b)), r.curr)

levenshteinBounded(a, b, maxDist) ==
    levenshteinBoundedOn(NewRows, a, b, maxDist).ret

\* the outer loop of levenshtein from row i on
RECURSIVE PlainLoop(_, _, _, _, _)
PlainLoop(a, b, i, prev, curr) ==
    IF i > Len(a)
    THEN [ret |-> prev[Len(b) + 1], rows |-> [prev |-> prev, curr |-> curr]]
    ELSE CHOOSE res \in {PlainLoop(a, b, i + 1, row, prev) :
                            row \in {ComputeRow(prev, curr, a, b, i)}} : TRUE

PlainUsesPool(a, b) == a # b /\ Len(a) # 0 /\ Len(b) # 0

levenshteinOn(rows, a, b) ==
    IF a = b THEN [ret |-> 0, rows |-> rows]
    ELSE IF Len(a) = 0 THEN [ret |-> Len(b), rows |-> rows]
    ELSE IF Len(b) = 0 THEN [ret |-> Len(a), rows |-> rows]
    ELSE LET r == EnsureRows(rows, Len(b) + 1)
         IN  PlainLoop(a, b, 1, InitPrev(r.prev, Len(b)), r.curr)

levenshtein(a, b) == levenshteinOn(NewRows, a, b).ret

(***************************************************************************)
(* Matcher (match.go).  A Go map is [isNil, m]: m is the function from its  *)
(* keys; a nil *Regexp is NilRegexp; a map[string]bool used as a set is     *)
(* [isNil, keys].                                                           *)
(***************************************************************************)
NilRegexp == [nil |-> TRUE]
NilMap == [isNil |-> TRUE, m |-> <<>>]
NilSet == [isNil |-> TRUE, keys |-> {}]

\* toLowerFast: lower-cases only when an upper-case byte is found
toLowerFast(s) ==
    IF \E i \in 1..Len(s) : LowerChar(CharAt(s, i)) # CharAt(s, i)
    THEN ToLower(s)
    ELSE s

IsDelim(c) == c = "-" \/ c = "_" \/ c = "."

\* the token loop without the cumulative-prefix comparison
RECURSIVE FuzzyTokenLoop_TokensOnly(_, _, _, _, _)
FuzzyTokenLoop_TokensOnly(t, p, dist, i, tokenStart) ==
    IF i > Len(t) THEN FALSE
    ELSE LET isDelim == i < Len(t) /\ IsDelim(CharAt(t, i + 1))
             isEnd   == i = Len(t)
         IN  IF isDelim \/ isEnd
             THEN IF i > tokenStart
                     /\ levenshteinBounded(SubSeq(t, tokenStart + 1, i), p, dist) <= dist
                  THEN TRUE
                  ELSE FuzzyTokenLoop_TokensOnly(t, p, dist, i + 1, i + 1)
             ELSE FuzzyTokenLoop_TokensOnly(t, p, dist, i + 1, tokenStart)

\* the token loop of fuzzyContains from index i (0-based) on
RECURSIVE FuzzyTokenLoop(_, _, _, _, _)
FuzzyTokenLoop(t, p, dist, i, tokenStart) ==
    IF i > Len(t) THEN FALSE
    ELSE LET isDelim == i < Len(t) /\ IsDelim(CharAt(t, i + 1))
             isEnd   == i = Len(t)
         IN  IF isDelim \/ isEnd
             THEN IF i > tokenStart
                     /\ (\/ levenshteinBounded(SubSeq(t, 1, i), p, dist) <= dist
                         \/ levenshteinBounded(SubSeq(t, tokenStart + 1, i), p, dist) <= dist)
                  THEN TRUE
                  ELSE FuzzyTokenLoop(t, p, dist, i + 1, i + 1)
             ELSE FuzzyTokenLoop(t, p, dist, i + 1, tokenStart)

fuzzyContains(target, pattern, dist, ignoreCase) ==
    IF pattern = "" THEN TRUE
    ELSE IF target = "" THEN FALSE
    ELSE LET t == IF ignoreCase THEN ToLower(target) ELSE target
             p == IF ignoreCase THEN ToLower(pattern) ELSE pattern
         IN  IF levenshteinBounded(t, p, dist) <= dist THEN TRUE
             ELSE FuzzyTokenLoop(t, p, dist, 0, 0)

matchSingle(mode, ignoreCase, target, pattern) ==
    LET p == IF ignoreCase THEN ToLower(pattern) ELSE pattern
    IN  CASE mode = "MatchGlob"     -> GlobMatch(p, target)
          [] mode = "MatchRegex"    -> IF ignoreCase
                                       THEN MatchString(CompileFold(pattern), target)
                                       ELSE MatchString(Compile(pattern), target)
          [] mode = "MatchContains" -> Contains(target, p)
          [] mode = "MatchFuzzy"    -> fuzzyContains(target, pattern, 1, ignoreCase)
          [] OTHER                  -> GlobMatch(p, target)

matchSingleWithDistance(mode, ignoreCase, target, pattern, dist) ==
    IF mode # "MatchFuzzy" THEN matchSingle(mode, ignoreCase, target, pattern)
    ELSE fuzzyContains(target, pattern, IF dist <= 0 THEN 1 ELSE dist, ignoreCase)

\* one include or exclude entry against n: the pre-compiled regexp when Mode is
\* MatchRegex and one is stored at index i, matchSingleWithDistance otherwise
EntryMatches(m, patterns, regexes, i, n) ==
    IF m.Mode = "MatchRegex" /\ Len(regexes) >= i /\ regexes[i] # NilRegexp
    THEN MatchString(regexes[i], n)
    ELSE matchSingleWithDistance(m.Mode, m.IgnoreCase, n, patterns[i], m.FuzzyMaxDistance)

\* the include loop: stops at the first entry that matches
RECURSIVE IncludeLoop(_, _, _)
IncludeLoop(m, n, i) ==
    IF i > Len(m.Includes) THEN FALSE
    ELSE IF EntryMatches(m, m.Includes, m.IncludeRegexes, i, n) THEN TRUE
    ELSE IncludeLoop(m, n, i + 1)

\* the exclude loop: TRUE when it runs to its end (no entry matched)
RECURSIVE ExcludeLoop(_, _, _)
ExcludeLoop(m, n, i) ==
    IF i > Len(m.Excludes) THEN TRUE
    ELSE IF EntryMatches(m, m.Excludes, m.ExcludeRegexes, i, n) THEN FALSE
    ELSE ExcludeLoop(m, n, i + 1)

\* variant: a name an include pattern matched is kept whatever the excludes say
Matches_IncludeWins(m, name) ==
    LET n == IF m.IgnoreCase THEN toLowerFast(name) ELSE name
    IN  IF Len(m.Includes) > 0 THEN IncludeLoop(m, n, 1)
        ELSE ExcludeLoop(m, n, 1)

Matches(m, name) ==
    LET n == IF m.IgnoreCase THEN toLowerFast(name) ELSE name
    IN  IF Len(m.Includes) > 0 /\ ~IncludeLoop(m, n, 1) THEN FALSE
        ELSE ExcludeLoop(m, n, 1)

\* the exact-match scan: the map when it was built, the list otherwise
ExactAllowed(s, exact, exactMap) ==
    IF ~exactMap.isNil THEN s \in exactMap.keys
    ELSE \E i \in 1..Len(exact) : s = exact[i]

\* variant: with exact names configured, prefixes and regexes are not consulted
NamespaceAllowed_ExactOnly(m, ns) ==
    IF Len(m.NsExact) = 0 /\ Len(m.NsPrefix) = 0 /\ Len(m.NsRegex) = 0 THEN TRUE
    ELSE IF Len(m.NsExact) > 0 THEN ExactAllowed(ns, m.NsExact, m.NsExactMap)
    ELSE IF \E i \in 1..Len(m.NsPrefix) : HasPrefix(ns, m.NsPrefix[i]) THEN TRUE
    ELSE \E i \in 1..Len(m.NsRegex) : MatchString(m.NsRegex[i], ns)

NamespaceAllowed(m, ns) ==
    IF Len(m.NsExact) = 0 /\ Len(m.NsPrefix) = 0 /\ Len(m.NsRegex) = 0 THEN TRUE
    ELSE IF ExactAllowed(ns, m.NsExact, m.NsExactMap) THEN TRUE
    ELSE IF \E i \in 1..Len(m.NsPrefix) : HasPrefix(ns, m.NsPrefix[i]) THEN TRUE
    ELSE \E i \in 1..Len(m.NsRegex) : MatchString(m.NsRegex[i], ns)

labelValueMatches(value, lf) ==
    CASE lf.Mode = "LabelGlob"     -> GlobMatch(lf.Pattern, value)
      [] lf.Mode = "LabelPrefix"   -> HasPrefix(value, lf.Pattern)
      [] lf.Mode = "LabelContains" -> Contains(value, lf.Pattern)
      [] lf.Mode = "LabelRegex"    -> IF lf.CompiledRegex # NilRegexp
                                      THEN MatchString(lf.CompiledRegex, value)
                                      ELSE MatchString(Compile(lf.Pattern), value)
      [] OTHER                     -> GlobMatch(lf.Pattern, value)

\* fast path: every filter on its own, in order
RECURSIVE DirectFiltersPass(_, _, _)
DirectFiltersPass(filters, labels, i) ==
    IF i > Len(filters) THEN TRUE
    ELSE IF filters[i].Key \notin DOMAIN labels.m THEN FALSE
    ELSE IF ~labelValueMatches(labels.m[filters[i].Key], filters[i]) THEN FALSE
    ELSE DirectFiltersPass(filters, labels, i + 1)

\* the inner loop over the filters of one key: stops at the first that accepts
RECURSIVE MatchedAny(_, _, _)
MatchedAny(fls, val, i) ==
    IF i > Len(fls) THEN FALSE
    ELSE IF labelValueMatches(val, fls[i]) THEN TRUE
    ELSE MatchedAny(fls, val, i + 1)

\* variant: every filter of a repeated key must accept the value
GroupedFiltersPass_AllOfKey(byKey, labels) ==
    \A key \in DOMAIN byKey :
        /\ key \in DOMAIN labels.m
        /\ \A i \in 1..Len(byKey[key]) : labelValueMatches(labels.m[key], byKey[key][i])

\* slow path: the pre-grouped filters (the order of a map range does not show
\* in the result: each key either returns false or goes on)
GroupedFiltersPass(byKey, labels) ==
    \A key \in DOMAIN byKey :
        /\ key \in DOMAIN labels.m
        /\ MatchedAny(byKey[key], labels.m[key], 1)

\* the inner loop over the regexes for one key k: matchedRegexes afterwards
MarkMatched(regexes, flags, k) ==
    [i \in 1..Len(regexes) |-> flags[i] \/ MatchString(regexes[i], k)]

\* variant: the pass over the keys stops at the first key some regex matches
RECURSIVE KeyRegexLoop_StopsAtFirstMatch(_, _, _, _)
KeyRegexLoop_StopsAtFirstMatch(regexes, order, j, flags) ==
    IF j > Len(order) THEN flags
    ELSE LET marked == MarkMatched(regexes, flags, order[j])
         IN  IF \E i \in 1..Len(regexes) : marked[i]
             THEN marked
             ELSE KeyRegexLoop_StopsAtFirstMatch(regexes, order, j + 1, marked)

\* the single pass over the keys, in the order the range yields them, from the
\* j-th key on; it breaks as soon as every regex has matched
RECURSIVE KeyRegexLoop(_, _, _, _)
KeyRegexLoop(regexes, order, j, flags) ==
    IF j > Len(order) THEN flags
    ELSE LET marked == MarkMatched(regexes, flags, order[j])
         IN  IF \A i \in 1..Len(regexes) : marked[i]
             THEN marked
             ELSE KeyRegexLoop(regexes, order, j + 1, marked)

\* key-presence regexes: false when some regex is left unmatched after the pass
KeyRegexPass(regexes, order) ==
    IF Len(regexes) > 0
    THEN LET flags == KeyRegexLoop(regexes, order, 1, [i \in 1..Len(regexes) |-> FALSE])
         IN  \A i \in 1..Len(regexes) : flags[i]
    ELSE TRUE

\* the body shared by LabelsAllowed and AnnotationsAllowed; order is the order
\* in which the range over the map yields its keys
MapAllowed(filters, keyRegex, haveDuplicates, byKey, labels, order) ==
    IF labels.isNil THEN ~(Len(filters) > 0 \/ Len(keyRegex) > 0)
    ELSE IF Len(filters) = 0 /\ Len(keyRegex) = 0 THEN TRUE
    ELSE IF ~haveDuplicates /\ ~DirectFiltersPass(filters, labels, 1) THEN FALSE
    ELSE IF haveDuplicates /\ ~GroupedFiltersPass(byKey, labels) THEN FALSE
    ELSE KeyRegexPass(keyRegex, order)

\* the orders a range over the map can take (a nil map has no keys)
KeyOrders(labels) == Orders(DOMAIN labels.m)

LabelsAllowedIn(m, labels, order) ==
    MapAllowed(m.LabelFilters, m.LabelKeyRegex, m.LabelFiltersHaveDuplicates,
               m.LabelFiltersByKey, labels, order)

AnnotationsAllowedIn(m, annotations, order) ==
    MapAllowed(m.AnnotationFilters, m.AnnotationKeyRegex,
               m.AnnotationFiltersHaveDuplicates, m.AnnotationFiltersByKey,
               annotations, order)

\* the calls of the filter loop; SpecMatch runs the two methods under every
\* order of the keys
LabelsAllowed(m, labels) ==
    LabelsAllowedIn(m, labels, CHOOSE order \in KeyOrders(labels) : TRUE)

AnnotationsAllowed(m, annotations) ==
    AnnotationsAllowedIn(m, annotations, CHOOSE order \in KeyOrders(annotations) : TRUE)

(***************************************************************************)
(* CLIOptions, and the Matcher runCommand builds from them                  *)
(***************************************************************************)
\* a CLIOptions value with no pattern and no filter; BatchSize as
\* defaultCLIOptions sets it
BatchSizeDefault == 200

DefaultOpts ==
    [Verb |-> "get", Resource |-> "pods",
     Include |-> <<>>, Exclude |-> <<>>, Mode |-> "MatchGlob",
     IgnoreCase |-> FALSE, FuzzyMaxDistance |-> 0,
     NsExact |-> <<>>, NsPrefix |-> <<>>, NsRegex |-> <<>>,
     LabelFilters |-> <<>>, LabelKeyRegex |-> <<>>,
     AnnotationFilters |-> <<>>, AnnotationKeyRegex |-> <<>>,
     NodeExact |-> <<>>, NodePrefix |-> <<>>, NodeRegex |-> <<>>,
     OlderThan |-> 0, YoungerThan |-> 0,
     PodStatuses |-> <<>>, Unhealthy |-> FALSE, RestartExpr |-> "",
     ContainersNotReady |-> FALSE, ReasonFilters |-> <<>>, ContainerScope |-> "",
     AllNamespaces |-> FALSE, Namespace |-> "",
     DiscoveryFlags |-> <<>>, FinalFlags |-> <<>>, ExtraFinal |-> <<>>,
     GroupByLabel |-> "", ColorizeLabels |-> FALSE,
     Yes |-> FALSE, DryRun |-> FALSE, ServerDryRun |-> FALSE,
     ConfirmThreshold |-> 0, Preview |-> "", BatchSize |-> BatchSizeDefault]

\* base with the fields of upd set
With(base, upd) ==
    [k \in DOMAIN base |-> IF k \in DOMAIN upd THEN upd[k] ELSE base[k]]

\* parseLabelKV's result for key=pattern
LabelFilter(key, pattern, mode) ==
    [Key |-> key, Pattern |-> pattern, Mode |-> mode, CompiledRegex |-> NilRegexp]

SeqMap(Op(_), seq) == [i \in 1..Len(seq) |-> Op(seq[i])]

\* the copy of the label (annotation) filters with LabelRegex ones compiled
CompileFilter(lf) ==
    IF lf.Mode = "LabelRegex"
    THEN [lf EXCEPT !.CompiledRegex = Compile(lf.Pattern)]
    ELSE lf

\* the seenKeys scan: is some key repeated?
HasDuplicateKeys(filters) ==
    /\ Len(filters) > 1
    /\ \E i \in 1..Len(filters) : \E j \in 1..(i - 1) : filters[j].Key = filters[i].Key

SelectSeq2(seq, Test(_)) ==
    LET F[i \in 0..Len(seq)] ==
            IF i = 0 THEN <<>>
            ELSE IF Test(seq[i]) THEN Append(F[i - 1], seq[i]) ELSE F[i - 1]
    IN  F[Len(seq)]

\* variant: a repeated key keeps only its last filter
GroupByKey_LastOfKey(filters) ==
    IF HasDuplicateKeys(filters)
    THEN [key \in {filters[i].Key : i \in 1..Len(filters)} |->
              LET last == CHOOSE i \in 1..Len(filters) :
                              /\ filters[i].Key = key
                              /\ \A j \in (i + 1)..Len(filters) : filters[j].Key # key
              IN  <<filters[last]>>]
    ELSE <<>>

\* labelFiltersByKey: filled only when a key repeats
GroupByKey(filters) ==
    IF HasDuplicateKeys(filters)
    THEN [key \in {filters[i].Key : i \in 1..Len(filters)} |->
              LET OfKey(f) == f.Key = key IN SelectSeq2(filters, OfKey)]
    ELSE <<>>

\* the exact-match index: built for more than ExactMapThreshold entries
ExactMapThreshold == 3

\* variant: the index holds the first four entries only
ExactMap_FirstFour(exact) ==
    IF Len(exact) > ExactMapThreshold
    THEN [isNil |-> FALSE, keys |-> {exact[i] : i \in 1..(ExactMapThreshold + 1)}]
    ELSE NilSet

ExactMap(exact) ==
    IF Len(exact) > ExactMapThreshold
    THEN [isNil |-> FALSE, keys |-> {exact[i] : i \in 1..Len(exact)}]
    ELSE NilSet

\* every regex string regexp.MustCompile is handed while the Matcher is built
RegexesToCompile(o) ==
    {o.NsRegex[i] : i \in 1..Len(o.NsRegex)}
    \cup {o.LabelKeyRegex[i] : i \in 1..Len(o.LabelKeyRegex)}
    \cup {o.AnnotationKeyRegex[i] : i \in 1..Len(o.AnnotationKeyRegex)}
    \cup {o.NodeRegex[i] : i \in 1..Len(o.NodeRegex)}
    \cup (IF o.Mode = "MatchRegex"
          THEN {o.Include[i] : i \in 1..Len(o.Include)}
               \cup {o.Exclude[i] : i \in 1..Len(o.Exclude)}
          ELSE {})
    \cup {o.LabelFilters[i].Pattern :
            i \in {j \in 1..Len(o.LabelFilters) : o.LabelFilters[j].Mode = "LabelRegex"}}
    \cup {o.AnnotationFilters[i].Pattern :
            i \in {j \in 1..Len(o.AnnotationFilters) : o.AnnotationFilters[j].Mode = "LabelRegex"}}

\* MustCompile panics on a pattern that does not compile
CompilePanics(o) == \E p \in RegexesToCompile(o) : ~RegexCompiles(p)

CompileNameRegex(o, p) == IF o.IgnoreCase THEN CompileFold(p) ELSE Compile(p)

BuildMatcher(o) ==
    LET NameRegex(p) == CompileNameRegex(o, p)
        labelFilters == SeqMap(CompileFilter, o.LabelFilters)
        annotationFilters == SeqMap(CompileFilter, o.AnnotationFilters)
    IN  [Mode |-> o.Mode,
         Includes |-> o.Include,
         Excludes |-> o.Exclude,
         IgnoreCase |-> o.IgnoreCase,
         IncludeRegexes |-> IF o.Mode = "MatchRegex" THEN SeqMap(NameRegex, o.Include) ELSE <<>>,
         ExcludeRegexes |-> IF o.Mode = "MatchRegex" THEN SeqMap(NameRegex, o.Exclude) ELSE <<>>,
         NsExact |-> o.NsExact,
         NsPrefix |-> o.NsPrefix,
         NsRegex |-> SeqMap(Compile, o.NsRegex),
         NsExactMap |-> ExactMap(o.NsExact),
         FuzzyMaxDistance |-> o.FuzzyMaxDistance,
         LabelFilters |-> labelFilters,
         LabelKeyRegex |-> SeqMap(Compile, o.LabelKeyRegex),
         LabelFiltersHaveDuplicates |-> HasDuplicateKeys(labelFilters),
         LabelFiltersByKey |-> GroupByKey(labelFilters),
         AnnotationFilters |-> annotationFilters,
         AnnotationKeyRegex |-> SeqMap(Compile, o.AnnotationKeyRegex),
         AnnotationFiltersHaveDuplicates |-> HasDuplicateKeys(annotationFilters),
         AnnotationFiltersByKey |-> GroupByKey(annotationFilters)]

(***************************************************************************)
(* kubectl's JSON list and discoverNames.  An item is                        *)
(* [Name, Namespace, CreationTimestamp, Labels, Annotations, NodeName,       *)
(* Status]; Status is NilStatus or [Phase, ContainerStatuses]; a container   *)
(* status is [Name, Ready, RestartCount, State], State holding the waiting   *)
(* reason, the terminated reason ("" when there is none) and whether the     *)
(* running member is set.  A time is [zero, at]: the zero time.Time, or a    *)
(* reading of the clock.                                                     *)
(***************************************************************************)
NilStatus == [isNil |-> TRUE, Phase |-> "", ContainerStatuses |-> <<>>]
Status(phase, containers) ==
    [isNil |-> FALSE, Phase |-> phase, ContainerStatuses |-> containers]
ZeroTime == [zero |-> TRUE, at |-> 0]
TimeAt(t) == [zero |-> FALSE, at |-> t]

RECURSIVE ConcatAll(_)
ConcatAll(seqs) == IF seqs = <<>> THEN <<>> ELSE Head(seqs) \o ConcatAll(Tail(seqs))

RECURSIVE SumAll(_)
SumAll(ints) == IF ints = <<>> THEN 0 ELSE Head(ints) + SumAll(Tail(ints))

\* what one container status appends to the reasons
ContainerReasons(cs) ==
    (IF cs.State.Waiting # "" THEN <<cs.State.Waiting>> ELSE <<>>)
    \o (IF cs.State.Terminated # "" THEN <<cs.State.Terminated>> ELSE <<>>)
    \o (IF cs.State.Running THEN <<"Running">> ELSE <<>>)

\* the NameRef discoverNames builds from one item
ToNameRef(it) ==
    LET cs == IF it.Status.isNil THEN <<>> ELSE it.Status.ContainerStatuses
        phase == IF it.Status.isNil THEN "" ELSE it.Status.Phase
        names == {cs[i].Name : i \in {j \in 1..Len(cs) : ContainerReasons(cs[j]) # <<>>}}
    IN  [Namespace |-> it.Namespace,
         Name |-> it.Name,
         CreatedAt |-> it.CreationTimestamp,
         PodReasons |-> (IF phase # "" THEN <<phase>> ELSE <<>>)
                        \o ConcatAll([i \in 1..Len(cs) |-> ContainerReasons(cs[i])]),
         PodPhase |-> phase,
         Labels |-> it.Labels,
         Annotations |-> it.Annotations,
         NodeName |-> it.NodeName,
         TotalRestarts |-> SumAll([i \in 1..Len(cs) |-> cs[i].RestartCount]),
         NotReadyContainers |-> Cardinality({i \in 1..Len(cs) : ~cs[i].Ready}),
         ReasonsByContainer |->
             [n \in names |->
                 ConcatAll([i \in 1..Len(cs) |->
                     IF cs[i].Name = n THEN ContainerReasons(cs[i]) ELSE <<>>])]]

(***************************************************************************)
(* The filters of runCommand's loop, one operator per stage                  *)
(***************************************************************************)
\* stage 2: the bare name, and with AllNamespaces the composite ns/name
NameStage(o, m, r) ==
    LET nameMatches == Matches(m, r.Name)
    IN  IF ~nameMatches /\ o.AllNamespaces
        THEN Matches(m, r.Namespace \o "/" \o r.Name)
        ELSE nameMatches

\* variant: YoungerThan is consulted only when OlderThan is unset
AgeStage_OneConstraintOnly(o, r, now) ==
    IF o.OlderThan > 0
    THEN r.CreatedAt.zero \/ now - r.CreatedAt.at >= o.OlderThan
    ELSE IF o.YoungerThan > 0
    THEN ~r.CreatedAt.zero /\ now - r.CreatedAt.at <= o.YoungerThan
    ELSE TRUE

\* the age filters: age is time.Since(r.CreatedAt), read at Now; the time
\* since the zero time exceeds every duration
AgeStage(o, r, now) ==
    IF o.OlderThan > 0 \/ o.YoungerThan > 0
    THEN /\ ~(o.OlderThan > 0 /\ ~r.CreatedAt.zero /\ now - r.CreatedAt.at < o.OlderThan)
         /\ ~(o.YoungerThan > 0 /\ (r.CreatedAt.zero \/ now - r.CreatedAt.at > o.YoungerThan))
    ELSE TRUE

nodeAllowedFast(node, nodeExact, nodeExactMap, nodePrefix, nodeRegexes) ==
    IF Len(nodeExact) = 0 /\ Len(nodePrefix) = 0 /\ Len(nodeRegexes) = 0 THEN TRUE
    ELSE IF ExactAllowed(node, nodeExact, nodeExactMap) THEN TRUE
    ELSE IF \E i \in 1..Len(nodePrefix) : HasPrefix(node, nodePrefix[i]) THEN TRUE
    ELSE \E i \in 1..Len(nodeRegexes) : MatchString(nodeRegexes[i], node)

\* nodeAllowed: nodeAllowedFast with a nil map
nodeAllowed(node, nodeExact, nodePrefix, nodeRegexes) ==
    nodeAllowedFast(node, nodeExact, NilSet, nodePrefix, nodeRegexes)

NodeStage(o, r) ==
    IF Len(o.NodeExact) > 0 \/ Len(o.NodePrefix) > 0 \/ Len(o.NodeRegex) > 0
    THEN nodeAllowedFast(r.NodeName, o.NodeExact, ExactMap(o.NodeExact),
                         o.NodePrefix, SeqMap(Compile, o.NodeRegex))
    ELSE TRUE

CanonicalPhases == {"running", "pending", "succeeded", "failed", "unknown"}

\* the scan for a reason beyond the phase and "Running"
ExtraReason(r) ==
    \E i \in 1..Len(r.PodReasons) :
        LET reason == r.PodReasons[i]
        IN  ~(\/ reason = r.PodPhase
              \/ reason = "Running"
              \/ EqualFold(reason, r.PodPhase)
              \/ EqualFold(reason, "Running"))

\* variant: a canonical phase matches on the phase alone
StatusMatches_PhaseOnly(r, s) ==
    LET phaseLower == IF r.PodPhase # "" THEN ToLower(r.PodPhase) ELSE ""
        ls == ToLower(s)
    IN  IF ls \in CanonicalPhases
        THEN phaseLower = ls
        ELSE \E i \in 1..Len(r.PodReasons) :
                 r.PodReasons[i] = s \/ EqualFold(r.PodReasons[i], s)

\* one requested status against the candidate
StatusMatches(r, s) ==
    LET phaseLower == IF r.PodPhase # "" THEN ToLower(r.PodPhase) ELSE ""
        ls == ToLower(s)
    IN  IF ls \in CanonicalPhases
        THEN phaseLower = ls /\ (ls = "running" => ~ExtraReason(r))
        ELSE \E i \in 1..Len(r.PodReasons) :
                 r.PodReasons[i] = s \/ EqualFold(r.PodReasons[i], s)

PodStatusStage(o, r) ==
    IF o.Resource = "pods" /\ Len(o.PodStatuses) > 0
    THEN \E i \in 1..Len(o.PodStatuses) : StatusMatches(r, o.PodStatuses[i])
    ELSE TRUE

IsDigit(c) == c \in {"0", "1", "2", "3", "4", "5", "6", "7", "8", "9"}

RECURSIVE ParseDigits(_, _)
ParseDigits(numStr, n) ==
    IF numStr = "" THEN [ok |-> TRUE, n |-> n]
    ELSE IF ~IsDigit(Head(numStr)) THEN [ok |-> FALSE, n |-> 0]
    ELSE ParseDigits(Tail(numStr), n * 10 + (Code(Head(numStr)) - Code("0")))

compareIntExpr(val, expr) ==
    LET two == HasPrefix(expr, ">=") \/ HasPrefix(expr, "<=")
        one == HasPrefix(expr, ">") \/ HasPrefix(expr, "<") \/ HasPrefix(expr, "=")
        op == IF two THEN SubSeq(expr, 1, 2) ELSE IF one THEN SubSeq(expr, 1, 1) ELSE "="
        numStr == IF two THEN Drop(expr, 2) ELSE IF one THEN Drop(expr, 1) ELSE expr
        parsed == ParseDigits(numStr, 0)
    IN  IF ~parsed.ok THEN FALSE
        ELSE CASE op = ">"  -> val > parsed.n
               [] op = ">=" -> val >= parsed.n
               [] op = "<"  -> val < parsed.n
               [] op = "<=" -> val <= parsed.n
               [] op = "="  -> val = parsed.n
               [] OTHER     -> FALSE

RestartStage(o, r) ==
    IF o.Resource = "pods" /\ o.RestartExpr # ""
    THEN compareIntExpr(r.TotalRestarts, o.RestartExpr)
    ELSE TRUE

NotReadyStage(o, r) ==
    IF o.Resource = "pods" /\ o.ContainersNotReady
    THEN r.NotReadyContainers # 0
    ELSE TRUE

\* variant: the container scope is not consulted
reasonsMatch_ScopeIgnored(r, reasons, container) ==
    \A w \in 1..Len(reasons) :
        \E h \in 1..Len(r.PodReasons) : EqualFold(r.PodReasons[h], reasons[w])

reasonsMatch(r, reasons, container) ==
    LET vals == IF container = "" THEN r.PodReasons
                ELSE IF container \in DOMAIN r.ReasonsByContainer
                THEN r.ReasonsByContainer[container]
                ELSE <<>>
    IN  \A w \in 1..Len(reasons) :
            \E h \in 1..Len(vals) : EqualFold(vals[h], reasons[w])

ReasonStage(o, r) ==
    IF o.Resource = "pods" /\ Len(o.ReasonFilters) > 0
    THEN reasonsMatch(r, o.ReasonFilters, o.ContainerScope)
    ELSE TRUE

\* variant: Succeeded pods count as unhealthy
UnhealthyStage_SucceededKept(o, r) ==
    IF o.Resource = "pods" /\ o.Unhealthy
    THEN ~((r.PodPhase = "Running" \/ EqualFold(r.PodPhase, "Running")) /\ ~ExtraReason(r))
    ELSE TRUE

\* unhealthy: not clean Running and not Succeeded
UnhealthyStage(o, r) ==
    IF o.Resource = "pods" /\ o.Unhealthy
    THEN LET isRunningClean ==
                 /\ r.PodPhase = "Running" \/ EqualFold(r.PodPhase, "Running")
                 /\ ~ExtraReason(r)
             isSucceeded == r.PodPhase = "Succeeded" \/ EqualFold(r.PodPhase, "Succeeded")
         IN  ~(isRunningClean \/ isSucceeded)
    ELSE TRUE

\* one iteration of the loop: is the candidate appended to matched?
Keeps(o, m, r, now) ==
    /\ NamespaceAllowed(m, r.Namespace)
    /\ NameStage(o, m, r)
    /\ LabelsAllowed(m, r.Labels)
    /\ AnnotationsAllowed(m, r.Annotations)
    /\ AgeStage(o, r, now)
    /\ NodeStage(o, r)
    /\ PodStatusStage(o, r)
    /\ RestartStage(o, r)
    /\ NotReadyStage(o, r)
    /\ ReasonStage(o, r)
    /\ UnhealthyStage(o, r)

\* the matchedRef appended: the labels are copied only for grouping or colours
MatchedRef(o, r) ==
    [ns |-> r.Namespace, name |-> r.Name,
     labels |-> IF (o.GroupByLabel # "" \/ o.ColorizeLabels) /\ ~r.Labels.isNil
                THEN r.Labels ELSE NilMap]

(***************************************************************************)
(* The same loop body with levenshteinPool in view.  A scratch value       *)
(* [ret, rows, used] holds the verdict so far, the levenshteinRows object  *)
(* the distance calls of one iteration take from the pool and put back,    *)
(* and whether any call took it; the label and annotation checks run in    *)
(* the given orders of the keys.                                           *)
(***************************************************************************)
\* levenshteinBounded on the scratch rows
BoundedOnScratch(st, a, b, maxDist) ==
    CHOOSE res \in {[ret |-> r.ret, rows |-> r.rows,
                     used |-> st.used \/ BoundedUsesPool(a, b, maxDist)] :
                        r \in {levenshteinBoundedOn(st.rows, a, b, maxDist)}} : TRUE

Decided(st, value) == [st EXCEPT !.ret = value]

\* the rows Get() handed out, before any call
Scratch(rows) == [ret |-> FALSE, rows |-> rows, used |-> FALSE]

\* the token loop of fuzzyContains from index i (0-based) on
RECURSIVE FuzzyTokenLoopOn(_, _, _, _, _, _)
FuzzyTokenLoopOn(st, t, p, dist, i, tokenStart) ==
    IF i > Len(t) THEN Decided(st, FALSE)
    ELSE LET isDelim == i < Len(t) /\ IsDelim(CharAt(t, i + 1))
             isEnd   == i = Len(t)
         IN  IF isDelim \/ isEnd
             THEN IF i > tokenStart
                  THEN CHOOSE res \in
                         {IF cumulative.ret <= dist THEN Decided(cumulative, TRUE)
                          ELSE CHOOSE found \in
                                 {IF tok.ret <= dist THEN Decided(tok, TRUE)
                                  ELSE FuzzyTokenLoopOn(tok, t, p, dist, i + 1, i + 1) :
                                     tok \in {BoundedOnScratch(cumulative,
                                                 SubSeq(t, tokenStart + 1, i), p, dist)}} :
                                 TRUE :
                             cumulative \in {BoundedOnScratch(st, SubSeq(t, 1, i), p, dist)}} :
                         TRUE
                  ELSE FuzzyTokenLoopOn(st, t, p, dist, i + 1, i + 1)
             ELSE FuzzyTokenLoopOn(st, t, p, dist, i + 1, tokenStart)

fuzzyContainsOn(st, target, pattern, dist, ignoreCase) ==
    IF pattern = "" THEN Decided(st, TRUE)
    ELSE IF target = "" THEN Decided(st, FALSE)
    ELSE LET t == IF ignoreCase THEN ToLower(target) ELSE target
             p == IF ignoreCase THEN ToLower(pattern) ELSE pattern
         IN  CHOOSE res \in
               {IF whole.ret <= dist THEN Decided(whole, TRUE)
                ELSE FuzzyTokenLoopOn(whole, t, p, dist, 0, 0) :
                   whole \in {BoundedOnScratch(st, t, p, dist)}} : TRUE

\* one include or exclude entry against n
EntryMatchesOn(st, m, patterns, regexes, i, n) ==
    IF m.Mode = "MatchFuzzy"
    THEN fuzzyContainsOn(st, n, patterns[i],
                         IF m.FuzzyMaxDistance <= 0 THEN 1 ELSE m.FuzzyMaxDistance,
                         m.IgnoreCase)
    ELSE Decided(st, EntryMatches(m, patterns, regexes, i, n))

RECURSIVE IncludeLoopOn(_, _, _, _)
IncludeLoopOn(st, m, n, i) ==
    IF i > Len(m.Includes) THEN Decided(st, FALSE)
    ELSE CHOOSE res \in
           {IF e.ret THEN e ELSE IncludeLoopOn(e, m, n, i + 1) :
               e \in {EntryMatchesOn(st, m, m.Includes, m.IncludeRegexes, i, n)}} : TRUE

RECURSIVE ExcludeLoopOn(_, _, _, _)
ExcludeLoopOn(st, m, n, i) ==
    IF i > Len(m.Excludes) THEN Decided(st, TRUE)
    ELSE CHOOSE res \in
           {IF e.ret THEN Decided(e, FALSE) ELSE ExcludeLoopOn(e, m, n, i + 1) :
               e \in {EntryMatchesOn(st, m, m.Excludes, m.ExcludeRegexes, i, n)}} : TRUE

MatchesOn(st, m, name) ==
    LET n == IF m.IgnoreCase THEN toLowerFast(name) ELSE name
    IN  CHOOSE res \in
          {IF ~inc.ret THEN inc ELSE ExcludeLoopOn(inc, m, n, 1) :
              inc \in {IF Len(m.Includes) > 0 THEN IncludeLoopOn(st, m, n, 1)
                       ELSE Decided(st, TRUE)}} : TRUE

NameStageOn(st, o, m, r) ==
    CHOOSE res \in
      {IF ~nameMatches.ret /\ o.AllNamespaces
       THEN MatchesOn(nameMatches, m, r.Namespace \o "/" \o r.Name)
       ELSE nameMatches :
          nameMatches \in {MatchesOn(st, m, r.Name)}} : TRUE

\* one iteration of the loop: is the candidate appended to matched, and the
\* scratch rows afterwards
KeepsOn(st, o, m, r, now, labelOrder, annotationOrder) ==
    IF ~NamespaceAllowed(m, r.Namespace) THEN Decided(st, FALSE)
    ELSE CHOOSE res \in
           {Decided(name, /\ name.ret
                          /\ LabelsAllowedIn(m, r.Labels, labelOrder)
                          /\ AnnotationsAllowedIn(m, r.Annotations, annotationOrder)
                          /\ AgeStage(o, r, now)
                          /\ NodeStage(o, r)
                          /\ PodStatusStage(o, r)
                          /\ RestartStage(o, r)
                          /\ NotReadyStage(o, r)
                          /\ ReasonStage(o, r)
                          /\ UnhealthyStage(o, r)) :
               name \in {NameStageOn(st, o, m, r)}} : TRUE

(***************************************************************************)
(* The runner.  The log holds, in order, every call runCommand makes on the  *)
(* Runner, every message it prints that the properties speak of, and the     *)
(* line it reads from standard input.  One entry is [kind, fn, args].        *)
(***************************************************************************)
RunKubectl(a) == [kind |-> "call", fn |-> "RunKubectl", args |-> a]
CaptureKubectl(a) == [kind |-> "call", fn |-> "CaptureKubectl", args |-> a]
Printed(what) == [kind |-> "print", fn |-> what, args |-> <<>>]
ReadLine(text, err) ==
    [kind |-> "read", fn |-> IF err THEN "EOF" ELSE "ok", args |-> <<text>>]

\* what a list of RunKubectl calls made one after the other leaves: all of
\* them, or those up to the first that fails
RunOutcomes(list) ==
    {[log |-> list, err |-> FALSE]}
    \cup {[log |-> SubSeq(list, 1, k), err |-> TRUE] : k \in 1..Len(list)}

filterOutputFlags(flags) ==
    LET F[i \in 0..Len(flags)] ==
            \* [out, skipNext] after the first i flags
            IF i = 0 THEN [out |-> <<>>, skipNext |-> FALSE]
            ELSE LET f == flags[i]
                 IN  IF F[i - 1].skipNext THEN [out |-> F[i - 1].out, skipNext |-> FALSE]
                     ELSE IF f = "-o" \/ f = "--output"
                     THEN [out |-> F[i - 1].out,
                           skipNext |-> i + 1 <= Len(flags) /\ ~HasPrefix(flags[i + 1], "-")]
                     ELSE IF HasPrefix(f, "-o=") \/ HasPrefix(f, "--output=")
                     THEN [out |-> F[i - 1].out, skipNext |-> FALSE]
                     ELSE [out |-> Append(F[i - 1].out, f), skipNext |-> FALSE]
    IN  F[Len(flags)].out

stripAllNamespacesFlag(flags) ==
    SelectSeq(flags, LAMBDA f : ~(f = "-A" \/ f = "--all-namespaces"))

stripNamespaceFlag(flags) ==
    LET F[i \in 0..Len(flags)] ==
            IF i = 0 THEN [out |-> <<>>, skipNext |-> FALSE]
            ELSE LET f == flags[i]
                 IN  IF F[i - 1].skipNext THEN [out |-> F[i - 1].out, skipNext |-> FALSE]
                     ELSE IF f = "-n" \/ f = "--namespace"
                     THEN [out |-> F[i - 1].out,
                           skipNext |-> i + 1 <= Len(flags) /\ ~HasPrefix(flags[i + 1], "-")]
                     ELSE [out |-> Append(F[i - 1].out, f), skipNext |-> FALSE]
    IN  F[Len(flags)].out

ensureAllNamespacesFlag(flags) ==
    IF \E i \in 1..Len(flags) : flags[i] = "-A" \/ flags[i] = "--all-namespaces"
    THEN flags
    ELSE Append(flags, "-A")

containsFlag(flags, name) == \E i \in 1..Len(flags) : flags[i] = name
containsFlagWithPrefix(flags, prefix) == \E i \in 1..Len(flags) : HasPrefix(flags[i], prefix)

\* the calls runBatched makes when none fails
runBatched(verb, resource, targets, finalFlags, extra, batchSize, suppressFirstHeader) ==
    LET bs == IF batchSize <= 0 THEN Len(targets) ELSE batchSize
        n == IF bs = 0 THEN 0 ELSE (Len(targets) + bs - 1) \div bs
        Batch(k) == SubSeq(targets, (k - 1) * bs + 1, Min2(k * bs, Len(targets)))
        BatchFlags(k) ==
            IF verb = "get" /\ (k > 1 \/ suppressFirstHeader)
            THEN Append(finalFlags, "--no-headers=true")
            ELSE finalFlags
    IN  IF verb = "logs"
        THEN [i \in 1..Len(targets) |->
                 RunKubectl(<<verb, targets[i]>> \o finalFlags \o extra)]
        ELSE [k \in 1..n |->
                 RunKubectl(<<verb, resource>> \o Batch(k) \o BatchFlags(k) \o extra)]

ApiResourcesNamespaced ==
    CaptureKubectl(<<"api-resources", "-o", "name", "--verbs=list", "--namespaced=true">>)
ApiResourcesClusterScoped ==
    CaptureKubectl(<<"api-resources", "-o", "name", "--verbs=list", "--namespaced=false">>)

\* what the two api-resources lists can say of a resource: it is in the
\* first; it is in the second; it is in neither; the calls fail
ScopeAnswers == {"namespaced", "cluster", "neither", "error"}

\* isResourceNamespaced: [namespaced, err, log, cache]
isResourceNamespaced(cache, resource, answer) ==
    LET key == ToLower(resource)
    IN  IF key \in DOMAIN cache
        THEN [namespaced |-> cache[key], err |-> FALSE, log |-> <<>>, cache |-> cache]
        ELSE [namespaced |-> answer # "cluster",
              err |-> answer = "error",
              log |-> IF answer = "namespaced" THEN <<ApiResourcesNamespaced>>
                      ELSE <<ApiResourcesNamespaced, ApiResourcesClusterScoped>>,
              cache |-> cache @@ (key :> (answer # "cluster"))]

\* the scope of a resource discoverNames has asked for before (a cache hit)
CachedScope(cache, resource) == cache[ToLower(resource)]

\* discoverNames: [err, refs, log, cache]; got is whether kubectl get
\* succeeded with a list that parses
discoverNames(cache, resource, discoveryFlags, list, answer, got) ==
    LET sc == isResourceNamespaced(cache, resource, answer)
        output == filterOutputFlags(discoveryFlags)
        filtered == IF ~sc.err /\ ~sc.namespaced
                    THEN stripAllNamespacesFlag(stripNamespaceFlag(output))
                    ELSE output
    IN  [err |-> ~got,
         refs |-> IF got THEN SeqMap(ToNameRef, list) ELSE <<>>,
         log |-> Append(sc.log, CaptureKubectl(<<"get", resource, "-o", "json">> \o filtered)),
         cache |-> sc.cache]

\* the rows resolveCanonicalResource reads off the api-resources table
ApiRows ==
    <<[name |-> "pods", apigroup |-> "", kind |-> "pod", shorts |-> {"po"}],
      [name |-> "nodes", apigroup |-> "", kind |-> "node", shorts |-> {"no"}],
      [name |-> "bgppeers", apigroup |-> "metallb.io", kind |-> "bgppeer",
       shorts |-> {"bgpp"}]>>

RowCanonical(row) ==
    IF row.apigroup # "" /\ row.apigroup # "<none>" /\ row.apigroup # "core"
    THEN row.name \o "." \o row.apigroup
    ELSE row.name

RECURSIVE ResolveInRows(_, _, _)
ResolveInRows(rows, i, lower) ==
    IF i > Len(rows) THEN lower
    ELSE LET row == rows[i]
             canonical == RowCanonical(row)
         IN  IF lower = canonical \/ lower = row.name THEN canonical
             ELSE IF lower \in row.shorts
             THEN (IF canonical = row.name THEN lower ELSE canonical)
             ELSE IF lower = row.kind THEN canonical
             ELSE ResolveInRows(rows, i + 1, lower)

\* resolveCanonicalResource: [canon, err, log]; tableOk is whether the
\* api-resources table could be fetched
resolveCanonicalResource(resource, tableOk) ==
    LET lower == ToLower(resource)
        names == CaptureKubectl(<<"api-resources", "-o", "name", "--verbs=list">>)
        table == CaptureKubectl(<<"api-resources", "--verbs=list">>)
        listed == \E i \in 1..Len(ApiRows) : RowCanonical(ApiRows[i]) = lower
    IN  IF Contains(lower, ".") /\ tableOk /\ listed
        THEN [canon |-> lower, err |-> FALSE, log |-> <<names>>]
        ELSE [canon |-> IF tableOk THEN ResolveInRows(ApiRows, 1, lower) ELSE lower,
              err |-> ~tableOk,
              log |-> IF Contains(lower, ".") THEN <<names, table>> ELSE <<table>>]

TmpFile == "kubectl-wild-tmp.json"

\* runGetAllNamespacesSingleTable: the JSON list is captured, filtered into
\* a temporary file, and printed by one kubectl get -f
runGetAllNamespacesSingleTable(o, finalFlags) ==
    LET capture == CaptureKubectl(<<"get", o.Resource, "-A", "-o", "json">>)
        show == RunKubectl(<<"get", "-f", TmpFile>> \o finalFlags \o o.ExtraFinal)
    IN  {[log |-> <<capture>>, err |-> TRUE],
         [log |-> <<capture, show>>, err |-> TRUE],
         [log |-> <<capture, show>>, err |-> FALSE]}

Names(ms) == [i \in 1..Len(ms) |-> ms[i].name]

runGetAcrossNamespaces(o, ms, cache) ==
    LET finalFlags == stripAllNamespacesFlag(stripNamespaceFlag(o.FinalFlags))
    IN  IF ~CachedScope(cache, o.Resource)
        THEN RunOutcomes(runBatched("get", o.Resource, Names(ms), finalFlags,
                                    o.ExtraFinal, o.BatchSize, FALSE))
        ELSE runGetAllNamespacesSingleTable(o, ensureAllNamespacesFlag(finalFlags))

\* variant: every namespace's call names all the matched candidates
runVerbPerScope_NamesNotGrouped(verb, o, ms, cache) ==
    LET finalFlags == stripAllNamespacesFlag(stripNamespaceFlag(o.FinalFlags))
    IN  UNION {RunOutcomes(ConcatAll(
                   [i \in 1..Len(order) |->
                       runBatched(verb, o.Resource, Names(ms),
                                  <<"-n", order[i]>> \o finalFlags,
                                  o.ExtraFinal, o.BatchSize, FALSE)])) :
               order \in Orders({ms[i].ns : i \in 1..Len(ms)})}

runVerbPerScope(verb, o, ms, cache) ==
    IF ~o.AllNamespaces
    THEN RunOutcomes(runBatched(verb, o.Resource, Names(ms),
                                IF o.Namespace # ""
                                THEN <<"-n", o.Namespace>> \o stripNamespaceFlag(o.FinalFlags)
                                ELSE o.FinalFlags,
                                o.ExtraFinal, o.BatchSize, FALSE))
    ELSE LET finalFlags == stripAllNamespacesFlag(stripNamespaceFlag(o.FinalFlags))
             InNs(ns) == Names(SelectSeq(ms, LAMBDA m : m.ns = ns))
         IN  IF verb = "get" THEN runGetAcrossNamespaces(o, ms, cache)
             ELSE IF ~CachedScope(cache, o.Resource)
             THEN RunOutcomes(runBatched(verb, o.Resource, Names(ms), finalFlags,
                                         o.ExtraFinal, o.BatchSize, FALSE))
             ELSE UNION {RunOutcomes(ConcatAll(
                             [i \in 1..Len(order) |->
                                 runBatched(verb, o.Resource, InNs(order[i]),
                                            <<"-n", order[i]>> \o finalFlags,
                                            o.ExtraFinal, o.BatchSize, FALSE)])) :
                         order \in Orders({ms[i].ns : i \in 1..Len(ms)})}

\* runTopVerb; bin is the kubectl binary the environment names
runTopVerb(o, ms, bin) ==
    LET resourceLower == ToLower(o.Resource)
        topSubcommand == IF resourceLower \in {"pod", "pods", "po"} THEN "pods"
                         ELSE IF resourceLower \in {"node", "nodes", "no"} THEN "nodes"
                         ELSE ""
        targets == IF topSubcommand = "pods" /\ o.AllNamespaces THEN <<>>
                   ELSE IF topSubcommand = "pods" /\ o.Namespace # "" /\ Len(ms) # 1 THEN <<>>
                   ELSE Names(ms)
        finalFlags ==
            IF topSubcommand = "pods" /\ o.AllNamespaces
            THEN <<"-A">> \o stripNamespaceFlag(o.FinalFlags)
            ELSE IF topSubcommand = "pods" /\ o.Namespace # ""
            THEN <<"-n", o.Namespace>> \o stripNamespaceFlag(o.FinalFlags)
            ELSE IF topSubcommand = "nodes"
            THEN stripAllNamespacesFlag(stripNamespaceFlag(o.FinalFlags))
            ELSE o.FinalFlags
        head == IF bin = "oc" THEN <<"adm", "top", topSubcommand>> ELSE <<"top", topSubcommand>>
    IN  IF topSubcommand = "" THEN {[log |-> <<>>, err |-> TRUE]}
        ELSE RunOutcomes(<<RunKubectl(head \o targets \o finalFlags \o o.ExtraFinal)>>)

(***************************************************************************)
(* Specification SpecLev: calls of the two distance functions sharing       *)
(* levenshteinPool.                                                         *)
(***************************************************************************)
LevAlphabet == {"a", "b", "x"}
LevStrings == StringsUpTo(LevAlphabet, MaxStrLen)

NoCall == [fn |-> "none"]

\* sync.Pool.Get: a pooled object, or a fresh one from New
PoolGet == pool \cup {NewRows}

\* sync.Pool.Put: the object is kept; the pool may drop what it held
PoolPut(taken, rows) ==
    LET rest == pool \ {taken}
    IN  {{rows}} \cup {S \cup {rows} : S \in {T \in SUBSET rest : Cardinality(T) < MaxPooled}}

NoMatcher == [built |-> FALSE]

\* no runCommand in progress
NoRun ==
    /\ items = <<>>
    /\ resourceScopeCache = <<>>
    /\ refs = <<>>
    /\ idx = 0
    /\ matched = <<>>
    /\ pc = "idle"
    /\ log = <<>>
    /\ ret = "none"

InitLev ==
    /\ args \in [a : LevStrings, b : LevStrings, maxDist : 0..MaxDist]
    /\ pool = {}
    /\ call = NoCall
    /\ opts = DefaultOpts
    /\ matcher = NoMatcher
    /\ NoRun

CallLevenshteinBounded ==
    /\ IF BoundedUsesPool(args.a, args.b, args.maxDist)
       THEN \E taken \in PoolGet :
               \E r \in {levenshteinBoundedOn(taken, args.a, args.b, args.maxDist)} :
                   /\ pool' \in PoolPut(taken, r.rows)
                   /\ call' = [fn |-> "levenshteinBounded", ret |-> r.ret]
       ELSE /\ pool' = pool
            /\ call' = [fn |-> "levenshteinBounded",
                        ret |-> levenshteinBounded(args.a, args.b, args.maxDist)]
    /\ UNCHANGED <<args, opts, matcher, runVars>>

CallLevenshtein ==
    /\ IF PlainUsesPool(args.a, args.b)
       THEN \E taken \in PoolGet :
               \E r \in {levenshteinOn(taken, args.a, args.b)} :
                   /\ pool' \in PoolPut(taken, r.rows)
                   /\ call' = [fn |-> "levenshtein", ret |-> r.ret]
       ELSE /\ pool' = pool
            /\ call' = [fn |-> "levenshtein", ret |-> levenshtein(args.a, args.b)]
    /\ UNCHANGED <<args, opts, matcher, runVars>>

NextLev == CallLevenshteinBounded \/ CallLevenshtein

SpecLev == InitLev /\ [][NextLev]_vars

\* C10: levenshteinBounded(a, b, maxDist) returns min(levenshtein(a, b), maxDist+1)
\* for all strings a, b (empty ones included) and every maxDist >= 0.
C10_BoundedIsMinOfTrueAndSentinel ==
    call.fn = "levenshteinBounded" =>
        call.ret = Min2(levenshtein(args.a, args.b), args.maxDist + 1)
(***************************************************************************)
(* Specification SpecMatch: the Matcher runCommand builds from a filter     *)
(* specification, applied to one name, label map, annotation map and        *)
(* namespace.  The rows the distance functions take from levenshteinPool    *)
(* do not show in their results, so the pool is left out here.              *)
(***************************************************************************)
RECURSIVE SeqsUpTo(_, _)
SeqsUpTo(S, n) ==
    IF n = 0 THEN {<<>>}
    ELSE LET T == SeqsUpTo(S, n - 1)
         IN  T \cup {Append(t, x) : t \in T, x \in S}

Map(f) == [isNil |-> FALSE, m |-> f]

NamePatterns == {"a*", "*b", "ab?", "Ab"}
MatchNames == {"ab", "abz", "xb", "AB"}
ModeAndDistance ==
    {<<"MatchGlob", 0>>, <<"MatchRegex", 0>>, <<"MatchContains", 0>>,
     <<"MatchFuzzy", 0>>, <<"MatchFuzzy", 2>>}

NameSpecs ==
    {With(DefaultOpts, [Mode |-> md[1], FuzzyMaxDistance |-> md[2],
                        IgnoreCase |-> ic, Include |-> inc, Exclude |-> exc]) :
        md \in ModeAndDistance, ic \in BOOLEAN,
        inc \in SeqsUpTo(NamePatterns, MaxIncludes),
        exc \in {<<>>} \cup {<<p>> : p \in NamePatterns}}

FilterPool ==
    {LabelFilter("app", "web-*", "LabelGlob"), LabelFilter("app", "api", "LabelPrefix"),
     LabelFilter("env", "ro", "LabelContains"), LabelFilter("app", "^db", "LabelRegex")}
KeyRegexLists == {<<>>, <<"^app">>, <<"^app", "v$">>}
LabelMaps ==
    {NilMap, Map(<<>>),
     Map([k \in {"app"} |-> "web-1"]), Map([k \in {"app"} |-> "api-1"]),
     Map([k \in {"app"} |-> "db-1"]), Map([k \in {"env"} |-> "prod"]),
     Map([k \in {"app", "env"} |-> IF k = "app" THEN "web-1" ELSE "prod"]),
     Map([k \in {"app", "env"} |-> IF k = "app" THEN "api-1" ELSE "dev"]),
     Map([k \in {"appv", "zone"} |-> "web-1"])}

LabelSpecs ==
    {With(DefaultOpts, [LabelFilters |-> fl, LabelKeyRegex |-> kr]) :
        fl \in SeqsUpTo(FilterPool, MaxFilters), kr \in KeyRegexLists}
AnnotationSpecs ==
    {With(DefaultOpts, [AnnotationFilters |-> fl, AnnotationKeyRegex |-> kr]) :
        fl \in SeqsUpTo(FilterPool, MaxFilters), kr \in KeyRegexLists}

NsExactLists ==
    {<<>>, <<"dev">>, <<"dev", "qa">>, <<"dev", "qa", "ops">>,
     <<"dev", "qa", "ops", "prod">>, <<"qa", "ops", "qa", "ops", "prod">>}
NsPrefixLists == {<<>>, <<"prod">>, <<"kube-", "de">>}
NsRegexLists == {<<>>, <<"^prod-.*$">>, <<"q", "-a$">>}
Namespaces == {"", "dev", "devel", "prod", "prod-a", "qa", "kube-system"}

NamespaceSpecs ==
    {With(DefaultOpts, [NsExact |-> e, NsPrefix |-> pf, NsRegex |-> re]) :
        e \in NsExactLists, pf \in NsPrefixLists, re \in NsRegexLists}

\* the node filters, over the same strings as the namespace filters
NodeSpecs ==
    {With(DefaultOpts, [NodeExact |-> e, NodePrefix |-> pf, NodeRegex |-> re]) :
        e \in NsExactLists, pf \in NsPrefixLists, re \in NsRegexLists}

NoArgs ==
    [name |-> "", labels |-> NilMap, annotations |-> NilMap, ns |-> "", node |-> ""]

InitMatch ==
    /\ \/ /\ opts \in NameSpecs
          /\ args \in {With(NoArgs, [name |-> n]) : n \in MatchNames}
       \/ /\ opts \in LabelSpecs
          /\ args \in {With(NoArgs, [labels |-> l]) : l \in LabelMaps}
       \/ /\ opts \in AnnotationSpecs
          /\ args \in {With(NoArgs, [annotations |-> l]) : l \in LabelMaps}
       \/ /\ opts \in NamespaceSpecs
          /\ args \in {With(NoArgs, [ns |-> n]) : n \in Namespaces}
       \/ /\ opts \in NodeSpecs
          /\ args \in {With(NoArgs, [node |-> n]) : n \in Namespaces}
    /\ ~CompilePanics(opts)
    /\ matcher = BuildMatcher(opts)
    /\ call = NoCall
    /\ pool = {}
    /\ NoRun

CallMatches ==
    /\ call' = [fn |-> "Matches", ret |-> Matches(matcher, args.name)]
    /\ UNCHANGED <<opts, matcher, args, pool, runVars>>

CallLabelsAllowed ==
    /\ \E order \in KeyOrders(args.labels) :
           call' = [fn |-> "LabelsAllowed", order |-> order,
                    ret |-> LabelsAllowedIn(matcher, args.labels, order)]
    /\ UNCHANGED <<opts, matcher, args, pool, runVars>>

CallAnnotationsAllowed ==
    /\ \E order \in KeyOrders(args.annotations) :
           call' = [fn |-> "AnnotationsAllowed", order |-> order,
                    ret |-> AnnotationsAllowedIn(matcher, args.annotations, order)]
    /\ UNCHANGED <<opts, matcher, args, pool, runVars>>

CallNamespaceAllowed ==
    /\ call' = [fn |-> "NamespaceAllowed", ret |-> NamespaceAllowed(matcher, args.ns)]
    /\ UNCHANGED <<opts, matcher, args, pool, runVars>>

\* the node filter of the loop, on a candidate scheduled on args.node
CallNodeAllowedFast ==
    /\ call' = [fn |-> "nodeAllowedFast", nodeExactMap |-> ExactMap(opts.NodeExact),
                ret |-> NodeStage(opts, [NodeName |-> args.node])]
    /\ UNCHANGED <<opts, matcher, args, pool, runVars>>

NextMatch ==
    \/ CallMatches
    \/ CallLabelsAllowed
    \/ CallAnnotationsAllowed
    \/ CallNamespaceAllowed
    \/ CallNodeAllowedFast

SpecMatch == InitMatch /\ [][NextMatch]_vars

\* does pattern p of the filter specification o match name, in o's mode?
PatternMatchesName(o, p, name) ==
    matchSingleWithDistance(o.Mode, o.IgnoreCase,
                            IF o.IgnoreCase THEN ToLower(name) ELSE name,
                            p, o.FuzzyMaxDistance)

\* C1: Matches(name) is true iff (Includes is empty or some include pattern
\* matches name) and no exclude pattern matches name, in every match mode.
C1_MatchesIsIncludeAndNotExclude ==
    call.fn = "Matches" =>
        call.ret =
            (/\ \/ Len(opts.Include) = 0
                \/ \E i \in 1..Len(opts.Include) :
                       PatternMatchesName(opts, opts.Include[i], args.name)
             /\ ~\E j \in 1..Len(opts.Exclude) :
                       PatternMatchesName(opts, opts.Exclude[j], args.name))

\* C1 witness: an include pattern matches the name and an exclude pattern
\* vetoes it.
C1_Witness_ExcludeVetoes ==
    /\ call.fn = "Matches"
    /\ call.ret = FALSE
    /\ \E i \in 1..Len(opts.Include) : \E j \in 1..Len(opts.Exclude) :
           /\ opts.Include[i] # opts.Exclude[j]
           /\ PatternMatchesName(opts, opts.Include[i], args.name)
           /\ PatternMatchesName(opts, opts.Exclude[j], args.name)
\* the value-filter law over the filters as parseLabelKV produced them: every
\* distinct key is in the map and some filter of that key accepts its value
\* (OR within a key, AND across keys); a nil map has no keys
ValueFilterLaw(filters, labels) ==
    \A key \in {filters[i].Key : i \in 1..Len(filters)} :
        /\ ~labels.isNil
        /\ key \in DOMAIN labels.m
        /\ \E i \in 1..Len(filters) :
               /\ filters[i].Key = key
               /\ labelValueMatches(labels.m[key], filters[i])

\* every key-presence regex matches some key of the map
KeyPresenceLaw(keyRegex, labels) ==
    \A i \in 1..Len(keyRegex) :
        /\ ~labels.isNil
        /\ \E k \in DOMAIN labels.m : MatchString(Compile(keyRegex[i]), k)

\* C6 as stated: LabelsAllowed (AnnotationsAllowed) is true iff for every
\* distinct filter key the map has the key and some filter of that key accepts
\* its value; a nil map fails whenever a filter is configured.
C6_AllowedIffValueFilterLaw ==
    /\ call.fn = "LabelsAllowed" =>
           call.ret = ValueFilterLaw(opts.LabelFilters, args.labels)
    /\ call.fn = "AnnotationsAllowed" =>
           call.ret = ValueFilterLaw(opts.AnnotationFilters, args.annotations)

\* C6 amended: LabelsAllowed (AnnotationsAllowed) is true iff the value-filter
\* law holds (OR within a key, AND across keys) and every configured
\* key-presence regex matches some key of the map; a nil map fails whenever a
\* filter or a key-presence regex is configured.
C6_AllowedIffValueAndKeyLaws ==
    /\ call.fn = "LabelsAllowed" =>
           call.ret = (/\ ValueFilterLaw(opts.LabelFilters, args.labels)
                       /\ KeyPresenceLaw(opts.LabelKeyRegex, args.labels))
    /\ call.fn = "AnnotationsAllowed" =>
           call.ret = (/\ ValueFilterLaw(opts.AnnotationFilters, args.annotations)
                       /\ KeyPresenceLaw(opts.AnnotationKeyRegex, args.annotations))

\* C6 witness: two filters share a key, the first rejects the label's value,
\* the second accepts it, and the map is allowed.
C6_Witness_OrWithinKey ==
    /\ call.fn = "LabelsAllowed"
    /\ call.ret = TRUE
    /\ Len(opts.LabelFilters) = 2
    /\ opts.LabelFilters[1].Key = opts.LabelFilters[2].Key
    /\ ~args.labels.isNil
    /\ opts.LabelFilters[1].Key \in DOMAIN args.labels.m
    /\ ~labelValueMatches(args.labels.m[opts.LabelFilters[1].Key], opts.LabelFilters[1])
    /\ labelValueMatches(args.labels.m[opts.LabelFilters[2].Key], opts.LabelFilters[2])

\* C7: NamespaceAllowed(ns) is true iff no namespace rule is configured, or ns
\* equals an NsExact entry, or has an NsPrefix entry as prefix, or matches an
\* NsRegex entry.
C7_NamespaceAllowedLaw ==
    call.fn = "NamespaceAllowed" =>
        call.ret =
            (\/ Len(opts.NsExact) = 0 /\ Len(opts.NsPrefix) = 0 /\ Len(opts.NsRegex) = 0
             \/ \E i \in 1..Len(opts.NsExact) : args.ns = opts.NsExact[i]
             \/ \E i \in 1..Len(opts.NsPrefix) : HasPrefix(args.ns, opts.NsPrefix[i])
             \/ \E i \in 1..Len(opts.NsRegex) :
                    MatchString(Compile(opts.NsRegex[i]), args.ns))

\* C7 witness: exact names are configured (enough of them for the index), ns
\* is none of them, and a prefix rule lets it through.
C7_Witness_PrefixBesideExactIndex ==
    /\ call.fn = "NamespaceAllowed"
    /\ call.ret = TRUE
    /\ ~matcher.NsExactMap.isNil
    /\ \A i \in 1..Len(opts.NsExact) : args.ns # opts.NsExact[i]
    /\ \E i \in 1..Len(opts.NsPrefix) : HasPrefix(args.ns, opts.NsPrefix[i])
(***************************************************************************)
(* Specification Spec: one run of runCommand.  Start is the code up to the  *)
(* filter loop, FilterStep one iteration of the loop, Dispatch the code     *)
(* from the end of the loop to the return or to the read of the answer,     *)
(* Answer the code from that read to the return.                            *)
(***************************************************************************)
canPassthrough(o) ==
    LET hasPattern == Len(o.Include) > 0 /\ ~(Len(o.Include) = 1 /\ o.Include[1] = "*")
        hasFilters ==
            \/ Len(o.Exclude) > 0
            \/ Len(o.NsExact) > 0 \/ Len(o.NsPrefix) > 0 \/ Len(o.NsRegex) > 0
            \/ Len(o.LabelFilters) > 0 \/ Len(o.LabelKeyRegex) > 0
            \/ Len(o.AnnotationFilters) > 0 \/ Len(o.AnnotationKeyRegex) > 0
            \/ Len(o.NodeExact) > 0 \/ Len(o.NodePrefix) > 0 \/ Len(o.NodeRegex) > 0
            \/ o.OlderThan > 0 \/ o.YoungerThan > 0
            \/ Len(o.PodStatuses) > 0 \/ o.Unhealthy
            \/ o.RestartExpr # "" \/ o.ContainersNotReady \/ Len(o.ReasonFilters) > 0
        resourceMightNeedResolution == ~Contains(o.Resource, ".")
    IN  /\ ~hasPattern /\ ~hasFilters /\ o.Verb = "get"
        /\ ~o.AllNamespaces /\ o.GroupByLabel = "" /\ ~resourceMightNeedResolution

\* the one call of runVerbPassthrough
runVerbPassthrough(o) ==
    RunKubectl(<<o.Verb, o.Resource>>
               \o (IF o.Verb = "get" /\ o.GroupByLabel # ""
                      /\ ~containsFlag(o.FinalFlags, "-L")
                      /\ ~containsFlagWithPrefix(o.FinalFlags, "-L=")
                   THEN <<"-L", o.GroupByLabel>> ELSE <<>>)
               \o o.DiscoveryFlags \o o.FinalFlags \o o.ExtraFinal)

\* runCommand returns
Return(entries, value) ==
    /\ log' = log \o entries
    /\ ret' = value
    /\ pc' = "done"

Returns(outcome) == Return(outcome.log, IF outcome.err THEN "error" ELSE "nil")

\* discovery succeeded: the regexes are compiled, the Matcher is built and
\* the loop starts
EnterLoop(o, entries, d) ==
    /\ opts' = o
    /\ resourceScopeCache' = d.cache
    /\ IF CompilePanics(o)
       THEN /\ Return(entries, "panic")
            /\ UNCHANGED <<matcher, refs, idx, matched>>
       ELSE /\ matcher' = BuildMatcher(o)
            /\ refs' = d.refs
            /\ idx' = 1
            /\ matched' = <<>>
            /\ log' = log \o entries
            /\ pc' = "filter"
            /\ ret' = ret

DiscoveryFailed(entries, cache) ==
    /\ Return(entries, "error")
    /\ resourceScopeCache' = cache
    /\ UNCHANGED <<opts, matcher, refs, idx, matched>>

Start ==
    /\ pc = "start"
    /\ IF canPassthrough(opts)
       THEN /\ \E outcome \in RunOutcomes(<<runVerbPassthrough(opts)>>) : Returns(outcome)
            /\ UNCHANGED <<opts, matcher, refs, idx, matched, resourceScopeCache>>
       ELSE \E answer \in ScopeAnswers, got \in BOOLEAN :
              LET d == discoverNames(resourceScopeCache, opts.Resource,
                                     opts.DiscoveryFlags, items, answer, got)
              IN  IF ~d.err THEN EnterLoop(opts, d.log, d)
                  ELSE \E tableOk \in BOOLEAN :
                         LET rs == resolveCanonicalResource(opts.Resource, tableOk)
                         IN  IF ~rs.err /\ rs.canon # "" /\ rs.canon # opts.Resource
                             THEN \E answer2 \in ScopeAnswers, got2 \in BOOLEAN :
                                    LET d2 == discoverNames(d.cache, rs.canon,
                                                            opts.DiscoveryFlags, items,
                                                            answer2, got2)
                                        entries == d.log \o rs.log \o d2.log
                                    IN  IF d2.err THEN DiscoveryFailed(entries, d2.cache)
                                        ELSE EnterLoop([opts EXCEPT !.Resource = rs.canon],
                                                       entries, d2)
                             ELSE DiscoveryFailed(d.log \o rs.log, d.cache)
    /\ UNCHANGED <<args, pool, call, items>>

\* variant: an accepted candidate is put in front of matched
FilterStep_Prepends ==
    /\ pc = "filter"
    /\ idx <= Len(refs)
    /\ matched' = IF Keeps(opts, matcher, refs[idx], Now)
                  THEN <<MatchedRef(opts, refs[idx])>> \o matched
                  ELSE matched
    /\ idx' = idx + 1
    /\ UNCHANGED <<opts, matcher, args, pool, call, items, resourceScopeCache,
                   refs, pc, log, ret>>

FilterStep ==
    /\ pc = "filter"
    /\ idx <= Len(refs)
    /\ matched' = IF Keeps(opts, matcher, refs[idx], Now)
                  THEN Append(matched, MatchedRef(opts, refs[idx]))
                  ELSE matched
    /\ idx' = idx + 1
    /\ UNCHANGED <<opts, matcher, args, pool, call, items, resourceScopeCache,
                   refs, pc, log, ret>>

\* variant: the threshold blocks with Yes set too
ThresholdBlocks_YesNotConsulted(o, n) ==
    o.ConfirmThreshold > 0 /\ n > o.ConfirmThreshold

\* the confirm threshold of delete
ThresholdBlocks(o, n) ==
    o.ConfirmThreshold > 0 /\ n > o.ConfirmThreshold /\ ~o.Yes

previewAsTable(o, ms, cache) ==
    IF o.AllNamespaces THEN runGetAcrossNamespaces(o, ms, cache)
    ELSE RunOutcomes(runBatched("get", o.Resource, Names(ms),
                                IF o.Namespace # ""
                                THEN <<"-n", o.Namespace>> \o stripNamespaceFlag(o.FinalFlags)
                                ELSE o.FinalFlags,
                                o.ExtraFinal, o.BatchSize, FALSE))

\* the preview of delete: the table kubectl prints, or the list
Preview(o, ms, cache) ==
    LET previewMode == IF o.Preview = "" /\ o.AllNamespaces THEN "table" ELSE o.Preview
    IN  IF previewMode = "table"
        THEN {[log |-> IF t.err THEN t.log ELSE Append(t.log, Printed("preview-table")),
               err |-> t.err] : t \in previewAsTable(o, ms, cache)}
        ELSE {[log |-> <<Printed("preview-list")>>, err |-> FALSE]}

\* variant: a server-side dry run is issued before DryRun is looked at
DeleteTail_ServerDryRunFirst(o, ms, cache) ==
    IF o.ServerDryRun
    THEN runVerbPerScope("delete", [o EXCEPT !.FinalFlags = Append(@, "--dry-run=server")],
                         ms, cache)
    ELSE IF o.DryRun THEN {[log |-> <<Printed("dry-run")>>, err |-> FALSE]}
    ELSE runVerbPerScope("delete", o, ms, cache)

\* delete, once the threshold and the confirmation are behind
DeleteTail(o, ms, cache) ==
    IF o.DryRun THEN {[log |-> <<Printed("dry-run")>>, err |-> FALSE]}
    ELSE runVerbPerScope("delete",
                         IF o.ServerDryRun
                         THEN [o EXCEPT !.FinalFlags = Append(@, "--dry-run=server")]
                         ELSE o,
                         ms, cache)

\* the get branch: -L <key> is put first for grouping
GetTail(o, ms, cache) ==
    LET grouped == /\ o.GroupByLabel # ""
                   /\ ~containsFlag(o.FinalFlags, "-L")
                   /\ ~containsFlagWithPrefix(o.FinalFlags, "-L=")
        o2 == IF grouped THEN [o EXCEPT !.FinalFlags = <<"-L", o.GroupByLabel>> \o @] ELSE o
        summary == IF o.GroupByLabel # "" /\ o.ColorizeLabels
                   THEN <<Printed("label-summary")>> ELSE <<>>
    IN  {[log |-> summary \o t.log, err |-> t.err] : t \in runVerbPerScope("get", o2, ms, cache)}

Binaries == {"kubectl", "oc"}

Dispatch ==
    /\ pc = "filter"
    /\ idx > Len(refs)
    /\ IF Len(matched) = 0 THEN Return(<<Printed("no-match")>>, "nil")
       ELSE CASE opts.Verb = "get" ->
                    \E t \in GetTail(opts, matched, resourceScopeCache) : Returns(t)
              [] opts.Verb = "describe" ->
                    \E t \in runVerbPerScope("describe", opts, matched, resourceScopeCache) :
                        Returns(t)
              [] opts.Verb = "top" ->
                    \E bin \in Binaries : \E t \in runTopVerb(opts, matched, bin) : Returns(t)
              [] opts.Verb = "delete" ->
                    IF ThresholdBlocks(opts, Len(matched))
                    THEN Return(<<Printed("threshold-abort")>>, "nil")
                    ELSE IF ~opts.Yes /\ ~opts.DryRun
                    THEN \E pv \in Preview(opts, matched, resourceScopeCache) :
                            IF pv.err THEN Returns(pv)
                            ELSE /\ log' = log \o pv.log \o <<Printed("prompt")>>
                                 /\ pc' = "prompt"
                                 /\ ret' = ret
                    ELSE \E t \in DeleteTail(opts, matched, resourceScopeCache) : Returns(t)
              [] OTHER -> Return(<<>>, "error")
    /\ UNCHANGED <<opts, matcher, args, pool, call, items, resourceScopeCache,
                   refs, idx, matched>>

\* variant: an empty answer confirms
promptYesNo_EmptyConfirms(input) ==
    LET nl == {i \in 1..Len(input) : CharAt(input, i) = "\n"}
        text == IF nl = {} THEN input
                ELSE SubSeq(input, 1, CHOOSE i \in nl : \A j \in nl : i <= j)
        t == TrimSpace(text)
    IN  [text |-> text,
         err |-> nl = {},
         confirmed |-> nl # {} /\ (t = "" \/ t = "y" \/ t = "Y" \/ EqualFold(t, "yes"))]

\* promptYesNo on what standard input holds: [text, err, confirmed].
\* ReadString('\n') gives the text through the first newline, or an error
\* when there is none
promptYesNo(input) ==
    LET nl == {i \in 1..Len(input) : CharAt(input, i) = "\n"}
        text == IF nl = {} THEN input
                ELSE SubSeq(input, 1, CHOOSE i \in nl : \A j \in nl : i <= j)
        t == TrimSpace(text)
    IN  [text |-> text,
         err |-> nl = {},
         confirmed |-> nl # {} /\ (t = "y" \/ t = "Y" \/ EqualFold(t, "yes"))]

StdinInputs == {"y\n", "Y\n", "Yes\n", " yes \r\n", "n\n", "\n", "y", "yy\n"}

Answer ==
    /\ pc = "prompt"
    /\ \E input \in StdinInputs :
          LET p == promptYesNo(input)
              line == ReadLine(p.text, p.err)
          IN  IF p.err THEN Return(<<line>>, "error")
              ELSE IF ~p.confirmed THEN Return(<<line, Printed("aborted")>>, "nil")
              ELSE \E t \in DeleteTail(opts, matched, resourceScopeCache) :
                       Return(<<line>> \o t.log, IF t.err THEN "error" ELSE "nil")
    /\ UNCHANGED <<opts, matcher, args, pool, call, items, resourceScopeCache,
                   refs, idx, matched>>

Next == Start \/ FilterStep \/ Dispatch \/ Answer

(***************************************************************************)
(* The runs of Spec: the options parseArgs can hand over and the items the  *)
(* cluster can hold.                                                         *)
(***************************************************************************)
Container(name, ready, restarts, waiting, terminated, running) ==
    [Name |-> name, Ready |-> ready, RestartCount |-> restarts,
     State |-> [Waiting |-> waiting, Terminated |-> terminated, Running |-> running]]

Item(ns, name, created, labels, node, status) ==
    [Namespace |-> ns, Name |-> name, CreationTimestamp |-> created,
     Labels |-> labels, Annotations |-> NilMap, NodeName |-> node, Status |-> status]

PodItems ==
    <<Item("p", "a", TimeAt(1), Map([k \in {"app"} |-> "web-1"]), "n1",
           Status("Running", <<Container("c1", TRUE, 0, "", "", TRUE)>>)),
      Item("p", "ab", TimeAt(3), NilMap, "n2",
           Status("Running", <<Container("c1", FALSE, 2, "CrashLoopBackOff", "", FALSE)>>)),
      Item("p", "d", TimeAt(1), NilMap, "n1",
           Status("running", <<Container("c1", TRUE, 1, "", "", TRUE)>>)),
      Item("q", "a", ZeroTime, Map([k \in {"app"} |-> "api-1"]), "n2",
           Status("Succeeded", <<Container("c1", FALSE, 0, "", "Completed", FALSE)>>)),
      Item("q", "b", TimeAt(1), NilMap, "",
           Status("Pending", <<>>)),
      Item("q", "c", TimeAt(1), NilMap, "", NilStatus)>>

NodeItems ==
    <<Item("", "n1", TimeAt(1), NilMap, "", NilStatus),
      Item("", "n2", TimeAt(1), NilMap, "", NilStatus)>>

RECURSIVE PickFrom(_, _, _)
PickFrom(seq, S, i) ==
    IF i > Len(seq) THEN <<>>
    ELSE (IF i \in S THEN <<seq[i]>> ELSE <<>>) \o PickFrom(seq, S, i + 1)

\* the lists of at most MaxItems items kubectl can answer with: every
\* namespace with -A, one namespace without
ItemLists(o, all) ==
    {l \in {PickFrom(all, S, 1) :
              S \in {T \in SUBSET (1..Len(all)) : Cardinality(T) <= MaxItems}} :
        \/ o.AllNamespaces
        \/ \A i \in 1..Len(l) :
               /\ l[i].Namespace = l[1].Namespace
               /\ o.Namespace # "" => l[i].Namespace = o.Namespace}

\* the scope flags as parseArgs records them
Scoped(o, all, ns) ==
    With(o, [AllNamespaces |-> all, Namespace |-> ns,
             DiscoveryFlags |-> IF all THEN <<"-A">>
                                ELSE IF ns # "" THEN <<"-n", ns>> ELSE <<>>])

NameRuns ==
    {Scoped(With(DefaultOpts, [Mode |-> mode, Include |-> inc, Exclude |-> exc]), all, "") :
        mode \in {"MatchGlob", "MatchRegex", "MatchContains", "MatchFuzzy"},
        inc \in {<<>>, <<"a*">>, <<"p/*">>},
        exc \in {<<>>, <<"a">>, <<"^a">>, <<"*/a">>},
        all \in BOOLEAN}

StatusPool == {"Running", "CrashLoopBackOff", "crashloopbackoff", "PENDING", "Succeeded"}

StatusRuns ==
    {With(DefaultOpts, [Resource |-> res, PodStatuses |-> st, Unhealthy |-> un]) :
        res \in {"pods", "po", "Pods"},
        st \in SeqsUpTo(StatusPool, MaxStatuses),
        un \in BOOLEAN}

OtherFilterRuns ==
    {With(DefaultOpts, upd) :
        upd \in {[RestartExpr |-> ">0"], [RestartExpr |-> "<=1"], [RestartExpr |-> "2"],
                 [RestartExpr |-> ">x"], [RestartExpr |-> ">"], [RestartExpr |-> "<="],
                 [Include |-> <<"[a">>], [Include |-> <<"a*[">>, IgnoreCase |-> TRUE],
                 [Exclude |-> <<"a\\">>],
                 [ContainersNotReady |-> TRUE],
                 [ReasonFilters |-> <<"crashloopbackoff">>],
                 [ReasonFilters |-> <<"Running">>, ContainerScope |-> "c1"],
                 [ReasonFilters |-> <<"Running">>, ContainerScope |-> "c2"],
                 [OlderThan |-> 1], [YoungerThan |-> 1],
                 [NodeExact |-> <<"n1">>], [NodePrefix |-> <<"n">>],
                 [NodeRegex |-> <<"2$">>], [NodeRegex |-> <<"(">>],
                 [LabelFilters |-> <<LabelFilter("app", "web-*", "LabelGlob")>>],
                 [NsPrefix |-> <<"q">>, AllNamespaces |-> TRUE, DiscoveryFlags |-> <<"-A">>]}}

\* the age windows: each bound unset (0) or a duration up to the clock
AgeRuns ==
    {With(DefaultOpts, [OlderThan |-> older, YoungerThan |-> younger]) :
        older \in 0..Now, younger \in 0..Now}

DeleteRuns ==
    {Scoped(With(DefaultOpts,
                 [Verb |-> "delete", Yes |-> yes, DryRun |-> dry, ServerDryRun |-> sdr,
                  ConfirmThreshold |-> n, Preview |-> pv]), all, "") :
        yes \in BOOLEAN, dry \in BOOLEAN, sdr \in BOOLEAN, all \in BOOLEAN,
        n \in 0..MaxThreshold, pv \in {"", "table", "list"}}

VerbRuns ==
    {Scoped(With(DefaultOpts, [Verb |-> verb, Resource |-> res]), sc[1], sc[2]) :
        verb \in {"get", "describe", "top", "logs"},
        res \in {"pods", "nodes", "bgpp"},
        sc \in {<<FALSE, "">>, <<FALSE, "p">>, <<TRUE, "">>}}
    \cup {With(DefaultOpts, [Resource |-> "bgppeers.metallb.io", Include |-> inc,
                             FinalFlags |-> ff, Mode |-> mode]) :
            inc \in {<<>>, <<"*">>, <<"a*">>}, ff \in {<<>>, <<"-o", "wide">>},
            mode \in {"MatchGlob", "MatchContains"}}
    \cup {With(DefaultOpts, [GroupByLabel |-> "app", ColorizeLabels |-> c, BatchSize |-> b]) :
            c \in BOOLEAN, b \in {0, 1}}
    \cup {With(DefaultOpts, [Verb |-> "delete", Yes |-> TRUE, BatchSize |-> b]) : b \in {0, 1}}
    \cup {Scoped(With(DefaultOpts, [Verb |-> verb, Yes |-> TRUE, BatchSize |-> b,
                                    FinalFlags |-> ff]), TRUE, "") :
            verb \in {"delete", "describe"}, b \in {1, BatchSizeDefault},
            ff \in {<<>>, <<"-n", "x", "--force">>}}

ItemsOf(o) == IF o.Resource = "nodes" THEN NodeItems ELSE PodItems

Init ==
    /\ opts \in NameRuns \cup StatusRuns \cup OtherFilterRuns \cup AgeRuns
                 \cup DeleteRuns \cup VerbRuns
    /\ items \in ItemLists(opts, ItemsOf(opts))
    /\ matcher = NoMatcher
    /\ resourceScopeCache = <<>>
    /\ refs = <<>>
    /\ idx = 0
    /\ matched = <<>>
    /\ pc = "start"
    /\ log = <<>>
    /\ ret = "none"
    /\ args = NoArgs
    /\ pool = {}
    /\ call = NoCall

Spec == Init /\ [][Next]_vars
(***************************************************************************)
(* Properties of Spec                                                       *)
(***************************************************************************)
\* the candidates the loop has decided on, and whether one is in matched
Processed == 1..(idx - 1)
Kept(i) ==
    \E k \in 1..Len(matched) :
        matched[k].ns = refs[i].Namespace /\ matched[k].name = refs[i].Name

LoopFinished == pc \in {"prompt", "done"} /\ idx = Len(refs) + 1

IsDeleteCall(e) ==
    e.kind = "call" /\ e.fn = "RunKubectl" /\ Len(e.args) > 0 /\ e.args[1] = "delete"
DeleteCalls == {i \in 1..Len(log) : IsDeleteCall(log[i])}
IsPreview(e) == e.kind = "print" /\ e.fn \in {"preview-list", "preview-table"}
HasPrinted(what) == \E i \in 1..Len(log) : log[i] = Printed(what)
\* a line read without error that says y, Y or yes in any case
AnsweredYes(e) ==
    /\ e.kind = "read"
    /\ e.fn = "ok"
    /\ LET t == TrimSpace(e.args[1]) IN t \in {"y", "Y"} \/ ToLower(t) = "yes"

\* C2: a candidate whose bare name matches an exclude pattern is never in
\* matched, in every match mode, with AllNamespaces (where the composite
\* namespace/name is tested after the bare name failed) as without.
C2_ExcludedBareNameNeverMatched ==
    \A i \in 1..Len(matched) :
        ~\E j \in 1..Len(opts.Exclude) :
            PatternMatchesName(opts, opts.Exclude[j], matched[i].name)

\* C3: with verb delete, Yes unset and DryRun unset, every delete call comes
\* after a preview and after an answer of y, Y or yes read without error that
\* followed that preview; once any other answer or a read error is in the log
\* the run is over without a delete call (a failed table preview leaves no
\* preview in the log).
C3_DeleteOnlyAfterPreviewAndYes ==
    (opts.Verb = "delete" /\ ~opts.Yes /\ ~opts.DryRun) =>
        /\ \A i \in DeleteCalls :
               \E j \in 1..(i - 1) : \E k \in (j + 1)..(i - 1) :
                   IsPreview(log[j]) /\ AnsweredYes(log[k])
        /\ (\E k \in 1..Len(log) : log[k].kind = "read" /\ ~AnsweredYes(log[k])) =>
               pc = "done" /\ DeleteCalls = {}

\* C3 witness: a delete call was issued after the table preview of an
\* all-namespaces delete and a confirming answer.
C3_Witness_DeleteAfterConfirmation ==
    /\ opts.Verb = "delete" /\ ~opts.Yes /\ ~opts.DryRun
    /\ DeleteCalls # {}
    /\ HasPrinted("preview-table")
    /\ \E k \in 1..Len(log) : AnsweredYes(log[k])

\* C4: with verb delete and DryRun set no delete call is ever issued, whatever
\* Yes, ConfirmThreshold, ServerDryRun, AllNamespaces and the matched set are.
C4_DryRunNeverDeletes ==
    (opts.Verb = "delete" /\ opts.DryRun) => DeleteCalls = {}

\* C4 witness: a dry run with Yes and ServerDryRun set and more matches than
\* the threshold ran to its end and printed what it would delete.
C4_Witness_DryRunPrinted ==
    /\ opts.Verb = "delete" /\ opts.DryRun /\ opts.Yes /\ opts.ServerDryRun
    /\ opts.ConfirmThreshold > 0
    /\ Len(matched) > opts.ConfirmThreshold
    /\ pc = "done"
    /\ HasPrinted("dry-run")

\* C5: with verb delete and ConfirmThreshold N > 0, once the loop has matched
\* more than N candidates: with Yes unset the run ends returning nil with no
\* preview, no prompt, no answer read and no delete call; with Yes set the
\* threshold does not block (the run goes on to the dry-run message or to a
\* delete call).
C5_ThresholdBlocksUnlessYes ==
    (/\ opts.Verb = "delete"
     /\ opts.ConfirmThreshold > 0
     /\ LoopFinished
     /\ Len(matched) > opts.ConfirmThreshold) =>
        IF ~opts.Yes
        THEN /\ pc = "done"
             /\ ret = "nil"
             /\ DeleteCalls = {}
             /\ \A i \in 1..Len(log) :
                    /\ ~IsPreview(log[i])
                    /\ log[i] # Printed("prompt")
                    /\ log[i].kind # "read"
        ELSE /\ ~HasPrinted("threshold-abort")
             /\ IF opts.DryRun THEN HasPrinted("dry-run") ELSE DeleteCalls # {}

\* C5 witness: the threshold stopped a delete that matched more than N.
C5_Witness_ThresholdAbort ==
    /\ opts.Verb = "delete" /\ ~opts.Yes
    /\ opts.ConfirmThreshold > 0
    /\ Len(matched) > opts.ConfirmThreshold
    /\ HasPrinted("threshold-abort")

\* every stage of the loop but the pod status one
PassesBesidesStatus(o, m, r) ==
    /\ NamespaceAllowed(m, r.Namespace)
    /\ NameStage(o, m, r)
    /\ LabelsAllowed(m, r.Labels)
    /\ AnnotationsAllowed(m, r.Annotations)
    /\ AgeStage(o, r, Now)
    /\ NodeStage(o, r)
    /\ RestartStage(o, r)
    /\ NotReadyStage(o, r)
    /\ ReasonStage(o, r)
    /\ UnhealthyStage(o, r)

\* every stage of the loop but the unhealthy one
PassesBesidesUnhealthy(o, m, r) ==
    /\ NamespaceAllowed(m, r.Namespace)
    /\ NameStage(o, m, r)
    /\ LabelsAllowed(m, r.Labels)
    /\ AnnotationsAllowed(m, r.Annotations)
    /\ AgeStage(o, r, Now)
    /\ NodeStage(o, r)
    /\ PodStatusStage(o, r)
    /\ RestartStage(o, r)
    /\ NotReadyStage(o, r)
    /\ ReasonStage(o, r)

PhaseNames == {"Running", "Pending", "Succeeded", "Failed", "Unknown"}

\* the law of the pod status filter: some requested status matches
StatusLaw(r, statuses) ==
    \E i \in 1..Len(statuses) :
        LET s == statuses[i]
        IN  IF \E c \in PhaseNames : EqualFold(s, c)
            THEN /\ EqualFold(s, r.PodPhase)
                 /\ EqualFold(s, "Running") =>
                        \A k \in 1..Len(r.PodReasons) :
                            \/ EqualFold(r.PodReasons[k], r.PodPhase)
                            \/ EqualFold(r.PodReasons[k], "Running")
            ELSE \E k \in 1..Len(r.PodReasons) : EqualFold(r.PodReasons[k], s)

\* C8: on a pods listing with podStatuses non-empty, a candidate (that the
\* other filters let through) is matched iff some requested status matches
\* it: a canonical phase name when it equals podPhase case-insensitively, and
\* for Running only when every entry of podReasons equals the phase or
\* "Running" case-insensitively; any other status when it equals some entry
\* of podReasons case-insensitively.
C8_PodStatusLaw ==
    (opts.Resource = "pods" /\ Len(opts.PodStatuses) > 0) =>
        \A i \in Processed :
            Kept(i) <=> (/\ PassesBesidesStatus(opts, matcher, refs[i])
                         /\ StatusLaw(refs[i], opts.PodStatuses))

\* C8 witness: a pod with phase Running and a reason CrashLoopBackOff was not
\* matched by [Running].
C8_Witness_CrashLoopNotRunning ==
    /\ opts.Resource = "pods"
    /\ opts.PodStatuses = <<"Running">>
    /\ \E i \in Processed :
           /\ refs[i].PodPhase = "Running"
           /\ \E k \in 1..Len(refs[i].PodReasons) : refs[i].PodReasons[k] = "CrashLoopBackOff"
           /\ ~Kept(i)

\* C9: on a pods listing the unhealthy filter accepts a candidate (that the
\* other filters let through) iff podStatuses=[Running] would not accept it
\* and its phase is not Succeeded.
C9_UnhealthyIsComplement ==
    (opts.Resource = "pods" /\ opts.Unhealthy) =>
        \A i \in Processed :
            Kept(i) <=> (/\ PassesBesidesUnhealthy(opts, matcher, refs[i])
                         /\ ~StatusMatches(refs[i], "Running")
                         /\ ~EqualFold(refs[i].PodPhase, "Succeeded"))

\* C9 witness: a candidate with an empty phase was accepted as unhealthy.
C9_Witness_EmptyPhaseUnhealthy ==
    /\ opts.Resource = "pods"
    /\ opts.Unhealthy
    /\ \E i \in Processed : refs[i].PodPhase = "" /\ Kept(i)

(***************************************************************************)
(* Specification SpecFn: single calls of the pure helper functions, each   *)
(* on arguments drawn at the start.                                        *)
(***************************************************************************)
FuzzyAlphabet == {"a", "b", "-"}

\* targets and patterns as the tests of fuzzy matching use them, and names with
\* upper-case letters and the delimiters '_' and '.'
FuzzyExamples ==
    [fn : {"fuzzyContains"}, target : {"api-1-abc123", "nginx", "pending-forever"},
     pattern : {"apu-1", "ngin"}, dist : {1}, ignoreCase : {FALSE}]
    \cup [fn : {"fuzzyContains"}, target : {"Ab-a", "a_B", "b.A", "aB"},
          pattern : {"aB", "b", "A"}, dist : 0..1, ignoreCase : BOOLEAN]

FuzzyCalls ==
    FuzzyExamples
    \cup [fn : {"fuzzyContains"},
          target : StringsUpTo(FuzzyAlphabet, MaxStrLen + 1),
          pattern : StringsUpTo(FuzzyAlphabet, MaxStrLen - 1),
          dist : 0..MaxDist, ignoreCase : {FALSE}]

\* glob patterns of ordinary bytes, '*' and '?', and the strings the matcher is
\* asked about: names, namespace/name composites and label or annotation values
GlobPatterns == StringsUpTo({"a", "*", "?"}, MaxStrLen) \cup {"A*", "a/*", "*/a"}
GlobTargets == StringsUpTo({"a", "b", "/"}, MaxStrLen)

MatchSingleCalls ==
    [fn : {"matchSingle"}, mode : {"MatchGlob"}, ignoreCase : BOOLEAN,
     target : GlobTargets, pattern : GlobPatterns]

LabelValueCalls ==
    [fn : {"labelValueMatches"}, value : GlobTargets,
     lf : {LabelFilter("k", pt, "LabelGlob") : pt \in GlobPatterns}]

\* restart counts and restart expressions, well-formed and not
IntExprCalls ==
    [fn : {"compareIntExpr"}, val : 0..MaxVal,
     expr : StringsUpTo({">", "<", "=", "0", "2", "x"}, MaxStrLen) \cup {">=10", "<=2x", "03"}]

\* pods as discoverNames records them, one of them with a failing and a
\* running container, and the reasons and container scope asked for
ReasonPods ==
    {ToNameRef(PodItems[i]) : i \in 1..Len(PodItems)}
    \cup {ToNameRef(Item("p", "e", TimeAt(1), NilMap, "n1",
             Status("Running", <<Container("c1", FALSE, 1, "CrashLoopBackOff", "", FALSE),
                                 Container("c2", TRUE, 0, "", "", TRUE),
                                 Container("c4", FALSE, 0, "", "", FALSE)>>)))}

ReasonsMatchCalls ==
    [fn : {"reasonsMatch"}, r : ReasonPods,
     reasons : SeqsUpTo({"CrashLoopBackOff", "crashloopbackoff", "Running", "Completed"},
                        MaxStatuses),
     container : {"", "c1", "c2", "c3", "c4"}]

\* flag lists as parseArgs leaves them in DiscoveryFlags
FlagTokens == {"-o", "--output", "json", "-o=yaml", "--output=wide", "-owide", "-n", "-A"}

DiscoverCalls ==
    [fn : {"discoverNames"}, resource : {"pods"},
     discoveryFlags : SeqsUpTo(FlagTokens, MaxFlags)]

FnCalls ==
    FuzzyCalls \cup MatchSingleCalls \cup LabelValueCalls \cup IntExprCalls
    \cup ReasonsMatchCalls \cup DiscoverCalls

InitFn ==
    /\ args \in FnCalls
    /\ call = NoCall
    /\ pool = {}
    /\ opts = DefaultOpts
    /\ matcher = NoMatcher
    /\ NoRun

CallFuzzyContains ==
    /\ args.fn = "fuzzyContains"
    /\ call' = [fn |-> "fuzzyContains",
                ret |-> fuzzyContains(args.target, args.pattern, args.dist, args.ignoreCase)]
    /\ UNCHANGED <<args, opts, matcher, pool, runVars>>

CallMatchSingle ==
    /\ args.fn = "matchSingle"
    /\ call' = [fn |-> "matchSingle",
                ret |-> matchSingle(args.mode, args.ignoreCase, args.target, args.pattern)]
    /\ UNCHANGED <<args, opts, matcher, pool, runVars>>

CallLabelValueMatches ==
    /\ args.fn = "labelValueMatches"
    /\ call' = [fn |-> "labelValueMatches", ret |-> labelValueMatches(args.value, args.lf)]
    /\ UNCHANGED <<args, opts, matcher, pool, runVars>>

CallCompareIntExpr ==
    /\ args.fn = "compareIntExpr"
    /\ call' = [fn |-> "compareIntExpr", ret |-> compareIntExpr(args.val, args.expr)]
    /\ UNCHANGED <<args, opts, matcher, pool, runVars>>

CallReasonsMatch ==
    /\ args.fn = "reasonsMatch"
    /\ call' = [fn |-> "reasonsMatch",
                ret |-> reasonsMatch(args.r, args.reasons, args.container)]
    /\ UNCHANGED <<args, opts, matcher, pool, runVars>>

\* discoverNames up to its CaptureKubectl call, the resource being namespaced
CallDiscoverNames ==
    /\ args.fn = "discoverNames"
    /\ LET d == discoverNames(<<>>, args.resource, args.discoveryFlags, <<>>,
                              "namespaced", TRUE)
       IN  call' = [fn |-> "discoverNames",
                    ret |-> filterOutputFlags(args.discoveryFlags),
                    sent |-> d.log[Len(d.log)]]
    /\ UNCHANGED <<args, opts, matcher, pool, runVars>>

NextFn ==
    \/ CallDiscoverNames
    \/ CallFuzzyContains
    \/ CallReasonsMatch
    \/ CallCompareIntExpr
    \/ CallMatchSingle
    \/ CallLabelValueMatches

SpecFn == InitFn /\ [][NextFn]_vars

\* the number of single-character insertions, deletions and substitutions
\* that turn a into b
RECURSIVE EditDistance(_, _)
EditDistance(a, b) ==
    IF a = "" THEN Len(b)
    ELSE IF b = "" THEN Len(a)
    ELSE IF Head(a) = Head(b) THEN EditDistance(Tail(a), Tail(b))
    ELSE 1 + min3(EditDistance(Tail(a), b),
                  EditDistance(a, Tail(b)),
                  EditDistance(Tail(a), Tail(b)))

\* positions where a token of t (a maximal run without '-', '_', '.') starts, ends
TokenStarts(t) ==
    {i \in 1..Len(t) : ~IsDelim(CharAt(t, i)) /\ (i = 1 \/ IsDelim(CharAt(t, i - 1)))}
TokenEnds(t) ==
    {i \in 1..Len(t) : ~IsDelim(CharAt(t, i)) /\ (i = Len(t) \/ IsDelim(CharAt(t, i + 1)))}

\* the strings the pattern may be compared with: the whole target, its tokens
\* and its prefixes that end where a token ends
FuzzyComparands(t) ==
    {t}
    \cup {SubSeq(t, q[1], q[2]) :
             q \in {r \in TokenStarts(t) \X TokenEnds(t) :
                      /\ r[1] <= r[2]
                      /\ \A k \in r[1]..r[2] : ~IsDelim(CharAt(t, k))}}
    \cup {SubSeq(t, 1, e) : e \in TokenEnds(t)}

FuzzyLaw(target, pattern, maxDist, ignoreCase) ==
    \/ pattern = ""
    \/ /\ target # ""
       /\ LET t == IF ignoreCase THEN ToLower(target) ELSE target
              p == IF ignoreCase THEN ToLower(pattern) ELSE pattern
          IN  \E s \in FuzzyComparands(t) : EditDistance(s, p) <= maxDist

RECURSIVE WholeStringGlob(_, _)
WholeStringGlob(pattern, str) ==
    IF pattern = "" THEN str = ""
    ELSE IF Head(pattern) = "*"
         THEN \E k \in 0..Len(str) : WholeStringGlob(Tail(pattern), Drop(str, k))
    ELSE IF Head(pattern) = "?"
         THEN str # "" /\ WholeStringGlob(Tail(pattern), Tail(str))
    ELSE str # "" /\ Head(pattern) = Head(str) /\ WholeStringGlob(Tail(pattern), Tail(str))

\* C12: in Glob mode a pattern matches a string iff the entire string matches
\* the glob in which '*' is any run of characters and '?' exactly one
\* character, for names, namespace/name composites and label or annotation
\* values alike.
C12_GlobIsWholeStringStarQuestion ==
    /\ call.fn = "matchSingle" =>
           call.ret = WholeStringGlob(IF args.ignoreCase THEN ToLower(args.pattern)
                                      ELSE args.pattern, args.target)
    /\ call.fn = "labelValueMatches" =>
           call.ret = WholeStringGlob(args.lf.Pattern, args.value)

\* the value of a string of decimal digits
RECURSIVE DecimalValue(_)
DecimalValue(digits) ==
    IF digits = "" THEN 0
    ELSE 10 * DecimalValue(SubSeq(digits, 1, Len(digits) - 1))
         + (CHOOSE d \in 0..9 : SubSeq("0123456789", d + 1, d + 1)
                                    = SubSeq(digits, Len(digits), Len(digits)))

IsNumber(str) == str # "" /\ \A i \in 1..Len(str) : IsDigit(CharAt(str, i))

Compare(val, op, n) ==
    CASE op = ">=" -> val >= n
      [] op = "<=" -> val <= n
      [] op = ">"  -> val > n
      [] op = "<"  -> val < n
      [] OTHER     -> val = n

\* val OP N when expr is OP followed by one or more digits, false otherwise
IntExprLaw(val, expr) ==
    \E op \in {">=", "<=", ">", "<", "=", ""} :
        /\ HasPrefix(expr, op)
        /\ IsNumber(Drop(expr, Len(op)))
        /\ Compare(val, op, DecimalValue(Drop(expr, Len(op))))

\* C13: compareIntExpr(val, expr) is val OP N when expr is an operator (>=,
\* <=, >, <, = or none, meaning =) followed by one or more decimal digits N,
\* and false for every val when expr has any other shape.
C13_CompareIntExprLaw ==
    call.fn = "compareIntExpr" => call.ret = IntExprLaw(args.val, args.expr)

\* every stage of the loop but the age one
PassesBesidesAge(o, m, r) ==
    /\ NamespaceAllowed(m, r.Namespace)
    /\ NameStage(o, m, r)
    /\ LabelsAllowed(m, r.Labels)
    /\ AnnotationsAllowed(m, r.Annotations)
    /\ NodeStage(o, r)
    /\ PodStatusStage(o, r)
    /\ RestartStage(o, r)
    /\ NotReadyStage(o, r)
    /\ ReasonStage(o, r)
    /\ UnhealthyStage(o, r)

\* age = now - createdAt compared with a duration; the zero time lies further
\* back than any duration
AgeAtLeast(r, d) == r.CreatedAt.zero \/ Now - r.CreatedAt.at >= d
AgeAtMost(r, d) == ~r.CreatedAt.zero /\ Now - r.CreatedAt.at <= d

\* C14: a candidate (that the other filters let through) passes the age step
\* iff (olderThan is unset or age >= olderThan) and (youngerThan is unset or
\* age <= youngerThan), the two constraints being independent.
C14_AgeWindowLaw ==
    pc # "start" =>
        \A i \in Processed :
            Kept(i) <=> /\ PassesBesidesAge(opts, matcher, refs[i])
                        /\ (opts.OlderThan = 0 \/ AgeAtLeast(refs[i], opts.OlderThan))
                        /\ (opts.YoungerThan = 0 \/ AgeAtMost(refs[i], opts.YoungerThan))

\* C14 witness: a window with both bounds set kept a candidate inside it and
\* dropped one that is old enough but not young enough.
C14_Witness_WindowKeepsAndDrops ==
    /\ opts.OlderThan > 0 /\ opts.YoungerThan > 0
    /\ \E i, j \in Processed :
           /\ Kept(i)
           /\ ~Kept(j)
           /\ AgeAtLeast(refs[j], opts.OlderThan)
           /\ ~AgeAtMost(refs[j], opts.YoungerThan)

\* the strings of a list, lower-cased
LowerSet(seq) == {ToLower(seq[i]) : i \in 1..Len(seq)}

\* the reasons recorded for one container; none when it has no entry
ReasonsOfContainer(r, container) ==
    IF container \in DOMAIN r.ReasonsByContainer
    THEN r.ReasonsByContainer[container]
    ELSE <<>>

\* C15: reasonsMatch with an empty container is true iff every requested
\* reason equals, case-insensitively, some entry of PodReasons; with a
\* container it makes the same test against that container's reasons only, so
\* a reason present only in another container, or a container without an
\* entry, fails.
C15_ReasonsMatchLaw ==
    call.fn = "reasonsMatch" =>
        /\ args.container = "" =>
               (call.ret <=> LowerSet(args.reasons) \subseteq LowerSet(args.r.PodReasons))
        /\ args.container # "" =>
               (call.ret <=> LowerSet(args.reasons)
                                 \subseteq LowerSet(ReasonsOfContainer(args.r, args.container)))
        /\ (/\ args.container # ""
            /\ args.reasons # <<>>
            /\ args.container \notin DOMAIN args.r.ReasonsByContainer) => ~call.ret

\* C15 witness: a reason that another container of the pod has, and the pod's
\* reasons therefore too, was refused for the container asked about.
C15_Witness_OtherContainersReason ==
    /\ call.fn = "reasonsMatch"
    /\ args.container = "c2"
    /\ args.reasons = <<"crashloopbackoff">>
    /\ "crashloopbackoff" \in LowerSet(args.r.PodReasons)
    /\ ~call.ret

\* does the map have no key at all (nil or empty)?
NoKeys(labels) == labels.isNil \/ DOMAIN labels.m = {}

\* the decision with key-presence regexes configured: the value filters
\* accept the map and each regex, checked on its own against all keys, matches
\* at least one of them
KeyRegexDecision(filters, keyRegex, labels) ==
    /\ ValueFilterLaw(filters, labels)
    /\ \A i \in 1..Len(keyRegex) :
           \E k \in DOMAIN labels.m : MatchString(Compile(keyRegex[i]), k)

\* C16: with key-presence regexes configured LabelsAllowed (AnnotationsAllowed)
\* passes only if every regex matches at least one key of the map; the single
\* pass with its early exit decides as the separate checks do, in whatever
\* order the keys come, and a nil or empty map fails.
C16_KeyPresenceRegexLaw ==
    /\ (call.fn = "LabelsAllowed" /\ Len(opts.LabelKeyRegex) > 0) =>
           /\ call.ret = KeyRegexDecision(opts.LabelFilters, opts.LabelKeyRegex, args.labels)
           /\ NoKeys(args.labels) => ~call.ret
    /\ (call.fn = "AnnotationsAllowed" /\ Len(opts.AnnotationKeyRegex) > 0) =>
           /\ call.ret = KeyRegexDecision(opts.AnnotationFilters, opts.AnnotationKeyRegex,
                                          args.annotations)
           /\ NoKeys(args.annotations) => ~call.ret

\* C16 witness: two regexes were satisfied by two different keys, the first
\* key of the pass matching only one of them.
C16_Witness_TwoKeysTwoRegexes ==
    /\ call.fn = "LabelsAllowed"
    /\ call.ret
    /\ Len(matcher.LabelKeyRegex) = 2
    /\ Len(call.order) = 2
    /\ ~MatchString(matcher.LabelKeyRegex[1], call.order[1])
    /\ MatchString(matcher.LabelKeyRegex[2], call.order[1])
    /\ MatchString(matcher.LabelKeyRegex[1], call.order[2])

\* the (namespace, name) pairs of matched and of the discovered candidates
MatchedKeys == [k \in 1..Len(matched) |-> <<matched[k].ns, matched[k].name>>]
CandidateKeys == [i \in 1..Len(refs) |-> <<refs[i].Namespace, refs[i].Name>>]

\* is a obtained from b by leaving elements out?
RECURSIVE IsSubsequence(_, _)
IsSubsequence(a, b) ==
    IF a = <<>> THEN TRUE
    ELSE IF b = <<>> THEN FALSE
    ELSE IF Head(a) = Head(b) THEN IsSubsequence(Tail(a), Tail(b))
    ELSE IsSubsequence(a, Tail(b))

\* C17: matched is always a subsequence of the discovered candidate list
\* (indeed of the candidates the loop has been through): same candidates, none
\* more often than in the input, in the input's order.
C17_MatchedIsSubsequence ==
    /\ IsSubsequence(MatchedKeys, CandidateKeys)
    /\ IsSubsequence(MatchedKeys, SubSeq(CandidateKeys, 1, idx - 1))

\* C17 witness: the loop went through two candidates and kept only the second.
C17_Witness_SecondOnlyKept ==
    /\ LoopFinished
    /\ Len(refs) = 2
    /\ MatchedKeys = <<CandidateKeys[2]>>

(***************************************************************************)
(* Specification SpecTwice: the compile-and-filter steps of runCommand      *)
(* (regex precompilation, Matcher construction, filter loop) run twice on   *)
(* one filter specification and one candidate list.  The clock time.Since   *)
(* reads is args.now and moves on at any moment; other callers of the       *)
(* distance functions use levenshteinPool before and between the runs.  log *)
(* holds the clock readings of the run in progress, call the results.       *)
(***************************************************************************)
TwiceItems ==
    <<Item("p", "a", TimeAt(1),
           Map([k \in {"app", "env"} |-> IF k = "app" THEN "web-1" ELSE "prod"]), "n1",
           Status("Running", <<Container("c1", TRUE, 0, "", "", TRUE)>>)),
      Item("p", "ab", TimeAt(3), NilMap, "n2",
           Status("Running", <<Container("c1", FALSE, 2, "CrashLoopBackOff", "", FALSE)>>)),
      Item("p", "b-ac", TimeAt(2), Map([k \in {"appv"} |-> "api-1"]), "n1",
           Status("Pending", <<>>))>>

TwiceSpecs ==
    {With(DefaultOpts, upd) :
        upd \in {[OlderThan |-> 1], [YoungerThan |-> 2], [OlderThan |-> 2, YoungerThan |-> 3],
                 [Include |-> <<"a*">>, Exclude |-> <<"ab">>],
                 [LabelKeyRegex |-> <<"^app", "v$">>],
                 [PodStatuses |-> <<"Running">>],
                 [NsRegex |-> <<"(">>]}}
    \cup {With(DefaultOpts, [Mode |-> "MatchFuzzy", FuzzyMaxDistance |-> d, Include |-> inc]) :
            d \in 0..MaxDist, inc \in {<<"ab">>, <<"ac", "b">>}}

RunResult(panicked, kept, reads) == [panic |-> panicked, matched |-> kept, reads |-> reads]
NoResult == [panic |-> FALSE, matched |-> <<>>, reads |-> <<>>]

InitTwice ==
    /\ opts \in TwiceSpecs
    /\ items \in ItemLists(opts, TwiceItems)
    /\ refs = [i \in 1..Len(items) |-> ToNameRef(items[i])]
    /\ args = [now |-> Now]
    /\ matcher = NoMatcher
    /\ call = NoCall
    /\ pool = {}
    /\ resourceScopeCache = <<>>
    /\ idx = 0
    /\ matched = <<>>
    /\ log = <<>>
    /\ ret = "none"
    /\ pc = "first"

\* a run is over: its result is recorded
EndRun(result) ==
    IF pc \in {"first", "filter1"}
    THEN /\ call' = [fn |-> "runs", first |-> result, second |-> NoResult]
         /\ pc' = "second"
    ELSE /\ call' = [call EXCEPT !.second = result]
         /\ pc' = "end"

\* regex precompilation and the Matcher literal; the loop is entered unless
\* there is no candidate
CompileFilters ==
    /\ pc \in {"first", "second"}
    /\ IF CompilePanics(opts)
       THEN /\ EndRun(RunResult(TRUE, <<>>, <<>>))
            /\ UNCHANGED <<matcher, idx, matched, log>>
       ELSE /\ matcher' = BuildMatcher(opts)
            /\ idx' = 1
            /\ matched' = <<>>
            /\ log' = <<>>
            /\ IF refs = <<>>
               THEN EndRun(RunResult(FALSE, <<>>, <<>>))
               ELSE /\ pc' = IF pc = "first" THEN "filter1" ELSE "filter2"
                    /\ call' = call
    /\ UNCHANGED <<opts, args, pool, items, resourceScopeCache, refs, ret>>

\* one iteration of the filter loop
FilterCandidate ==
    /\ pc \in {"filter1", "filter2"}
    /\ idx <= Len(refs)
    /\ \E taken \in PoolGet,
          labelOrder \in KeyOrders(refs[idx].Labels),
          annotationOrder \in KeyOrders(refs[idx].Annotations) :
          \E k \in {KeepsOn(Scratch(taken), opts, matcher, refs[idx],
                            args.now, labelOrder, annotationOrder)} :
             LET kept == IF k.ret THEN Append(matched, MatchedRef(opts, refs[idx]))
                         ELSE matched
                 reads == Append(log, args.now)
             IN  /\ matched' = kept
                 /\ log' = reads
                 /\ pool' \in (IF k.used THEN PoolPut(taken, k.rows) ELSE {pool})
                 /\ IF idx = Len(refs)
                    THEN EndRun(RunResult(FALSE, kept, reads))
                    ELSE pc' = pc /\ call' = call
    /\ idx' = idx + 1
    /\ UNCHANGED <<opts, matcher, args, items, resourceScopeCache, refs, ret>>

\* time passes
Tick ==
    /\ pc # "end"
    /\ args.now < Now + MaxTicks
    /\ args' = [now |-> args.now + 1]
    /\ UNCHANGED <<opts, matcher, pool, call, runVars>>

\* something else is evaluated before or between the runs: a distance call
\* that leaves its rows in levenshteinPool
EvaluateElsewhere ==
    /\ pc \in {"first", "second"}
    /\ \E a \in {"ab"}, b \in {"b", "ba"}, maxDist \in 1..MaxDist :
          /\ BoundedUsesPool(a, b, maxDist)
          /\ \E taken \in PoolGet :
                pool' \in PoolPut(taken, levenshteinBoundedOn(taken, a, b, maxDist).rows)
    /\ UNCHANGED <<opts, matcher, args, call, runVars>>

NextTwice ==
    \/ CompileFilters
    \/ FilterCandidate
    \/ Tick
    \/ EvaluateElsewhere

SpecTwice == InitTwice /\ [][NextTwice]_vars

BothRunsOver == pc = "end"

SameOutcome ==
    /\ call.second.panic = call.first.panic
    /\ call.second.matched = call.first.matched

\* C18 as stated: two runs of the compile-and-filter steps on the same filter
\* specification and candidate list yield the same matched list, whenever
\* they take place and whatever was evaluated in between.
C18_TwoRunsSameMatched ==
    BothRunsOver => SameOutcome

\* C18 amended: the two runs yield the same matched list, whatever was
\* evaluated in between, when no age bound is configured or the two runs read
\* the same clock values.
C18_TwoRunsSameMatchedGivenClock ==
    (/\ BothRunsOver
     /\ \/ opts.OlderThan = 0 /\ opts.YoungerThan = 0
        \/ call.second.reads = call.first.reads) => SameOutcome

\* C18 witness: two fuzzy runs at different times, the second with rows left
\* in the pool by other evaluations, matched the same non-empty list.
C18_Witness_FuzzyRunsAcrossTicks ==
    /\ BothRunsOver
    /\ opts.Mode = "MatchFuzzy"
    /\ call.first.matched # <<>>
    /\ call.second.matched = call.first.matched
    /\ call.second.reads # call.first.reads
    /\ \E rows \in pool : rows # NewRows

\* C19: when a regex of the filter specification fails to parse, runCommand
\* ends with an error result and no runner call (discovery or action) was
\* made before the failure.
C19_RegexParseFailureIsErrorBeforeAnyCall ==
    (pc = "done" /\ CompilePanics(opts)) => (ret = "error" /\ log = <<>>)

\* path.Match's pattern syntax: every '[' opens a class that is closed and
\* every '\' is followed by a byte
RECURSIVE GlobWellFormed(_)
GlobWellFormed(pattern) ==
    IF pattern = "" THEN TRUE
    ELSE IF Head(pattern) = "["
    THEN LET negated == Tail(pattern) # "" /\ Head(Tail(pattern)) = "^"
             cls == ClassRanges(Drop(pattern, IF negated THEN 2 ELSE 1), "", 0, FALSE)
         IN  cls.ok /\ GlobWellFormed(cls.rest)
    ELSE IF Head(pattern) = "\\"
    THEN Tail(pattern) # "" /\ GlobWellFormed(Tail(Tail(pattern)))
    ELSE GlobWellFormed(Tail(pattern))

\* a restart expression: an operator or none, then one or more digits
RestartExprWellFormed(expr) ==
    \E op \in {">=", "<=", ">", "<", "=", ""} :
        HasPrefix(expr, op) /\ IsNumber(Drop(expr, Len(op)))

InFilterLoop == pc = "filter" /\ idx <= Len(refs)

EveryStepIsBoolean(o, m, r) ==
    {NamespaceAllowed(m, r.Namespace), NameStage(o, m, r), LabelsAllowed(m, r.Labels),
     AnnotationsAllowed(m, r.Annotations), AgeStage(o, r, Now), NodeStage(o, r),
     PodStatusStage(o, r), RestartStage(o, r), NotReadyStage(o, r), ReasonStage(o, r),
     UnhealthyStage(o, r)} \subseteq BOOLEAN

MalformedGlobNeverMatches(m, r) ==
    m.Mode = "MatchGlob" =>
        \A i \in 1..Len(m.Includes), target \in {r.Name, r.Namespace \o "/" \o r.Name} :
            ~GlobWellFormed(m.Includes[i]) =>
                ~matchSingleWithDistance(m.Mode, m.IgnoreCase, target, m.Includes[i],
                                         m.FuzzyMaxDistance)

MalformedRestartExprIsFalse(o, r) ==
    (o.Resource = "pods" /\ o.RestartExpr # "" /\ ~RestartExprWellFormed(o.RestartExpr))
        => ~RestartStage(o, r)

\* C20: once the Matcher is built from a specification whose regexes all
\* parse, every filter step yields a boolean for every candidate; a malformed
\* glob pattern yields no match and a malformed restart expression yields
\* false.
C20_EveryStepBooleanMalformedIsFalse ==
    InFilterLoop =>
        /\ EveryStepIsBoolean(opts, matcher, refs[idx])
        /\ MalformedGlobNeverMatches(matcher, refs[idx])
        /\ MalformedRestartExprIsFalse(opts, refs[idx])

(***************************************************************************)
(* Specification SpecBatch: one call of runBatched, one loop iteration at  *)
(* a time.  args holds the parameters, call.batchSize the batch size       *)
(* after the guard at the top and call.failed the number of runner calls   *)
(* that returned an error, idx the loop index i, log the runner calls.     *)
(***************************************************************************)
BatchedCalls ==
    [fn : {"runBatched"},
     verb : {"get", "describe", "delete", "logs"},
     resource : {"pods"},
     targets : SeqsUpTo({"a", "b"}, MaxTargets),
     finalFlags : {<<>>, <<"-n", "p">>},
     extra : {<<>>},
     batchSize : (0 - 1)..MaxBatch,
     suppressFirstHeader : BOOLEAN]

InitBatch ==
    /\ args \in BatchedCalls
    /\ call = NoCall
    /\ pool = {}
    /\ opts = DefaultOpts
    /\ matcher = NoMatcher
    /\ NoRun

\* the guard on batchSize, and the loop condition before the first iteration
EnterBatched ==
    /\ pc = "idle"
    /\ args.fn = "runBatched"
    /\ LET batchSize == IF args.batchSize <= 0 THEN Len(args.targets) ELSE args.batchSize
       IN  /\ call' = [fn |-> "runBatched", batchSize |-> batchSize, failed |-> 0]
           /\ idx' = 0
           /\ IF batchSize = 0 \/ Len(args.targets) = 0
              THEN pc' = "done" /\ ret' = "nil"
              ELSE pc' = "batch" /\ ret' = ret
    /\ UNCHANGED <<opts, matcher, args, pool, items, resourceScopeCache, refs, matched, log>>

\* the runner calls of the iteration at index i
BatchCalls(i) ==
    LET j == Min2(i + call.batchSize, Len(args.targets))
        batch == SubSeq(args.targets, i + 1, j)
        batchFlags == IF args.verb = "get" /\ (i > 0 \/ args.suppressFirstHeader)
                      THEN Append(args.finalFlags, "--no-headers=true")
                      ELSE args.finalFlags
    IN  IF args.verb = "logs"
        THEN [k \in 1..Len(batch) |->
                 RunKubectl(<<args.verb, batch[k]>> \o args.finalFlags \o args.extra)]
        ELSE <<RunKubectl(<<args.verb, args.resource>> \o batch \o batchFlags \o args.extra)>>

\* variant: an error of the runner does not end the loop
BatchStep_ErrorIgnored ==
    /\ pc = "batch"
    /\ \E outcome \in RunOutcomes(BatchCalls(idx)) :
          /\ log' = log \o outcome.log
          /\ call' = [call EXCEPT !.failed = @ + (IF outcome.err THEN 1 ELSE 0)]
          /\ idx' = idx + call.batchSize
          /\ IF idx + call.batchSize < Len(args.targets)
             THEN pc' = pc /\ ret' = ret
             ELSE pc' = "done" /\ ret' = "nil"
    /\ UNCHANGED <<opts, matcher, args, pool, items, resourceScopeCache, refs, matched>>

\* one iteration of the loop, and the loop condition after it
BatchStep ==
    /\ pc = "batch"
    /\ \E outcome \in RunOutcomes(BatchCalls(idx)) :
          /\ log' = log \o outcome.log
          /\ IF outcome.err
             THEN /\ call' = [call EXCEPT !.failed = @ + 1]
                  /\ idx' = idx
                  /\ pc' = "done"
                  /\ ret' = "error"
             ELSE /\ call' = call
                  /\ idx' = idx + call.batchSize
                  /\ IF idx + call.batchSize < Len(args.targets)
                     THEN pc' = pc /\ ret' = ret
                     ELSE pc' = "done" /\ ret' = "nil"
    /\ UNCHANGED <<opts, matcher, args, pool, items, resourceScopeCache, refs, matched>>

NextBatch ==
    \/ EnterBatched
    \/ BatchStep

SpecBatch == InitBatch /\ [][NextBatch]_vars /\ WF_vars(NextBatch)

\* the targets one runner call of runBatched names
ChunkOf(e) ==
    IF args.verb = "logs" THEN <<e.args[2]>>
    ELSE LET beforeExtra == Len(e.args) - Len(args.extra)
             noHeaders == beforeExtra > 2 /\ e.args[beforeExtra] = "--no-headers=true"
                          /\ args.verb = "get"
             flags == Len(args.finalFlags) + (IF noHeaders THEN 1 ELSE 0)
         IN  SubSeq(e.args, 3, beforeExtra - flags)

Chunks == [k \in 1..Len(log) |-> ChunkOf(log[k])]

IsPrefixOf(a, b) == Len(a) <= Len(b) /\ SubSeq(b, 1, Len(a)) = a

BatchedReturned == pc = "done"

\* the calls name consecutive chunks of the targets in input order
ChunksInOrder ==
    /\ IsPrefixOf(ConcatAll(Chunks), args.targets)
    /\ \A k \in 1..Len(log) : Len(Chunks[k]) >= 1
    /\ (BatchedReturned /\ ret = "nil") => ConcatAll(Chunks) = args.targets

\* an error of the runner is the last call and ends runBatched with it
ErrorStops ==
    call.fn = "runBatched" =>
        /\ call.failed > 0 <=> (BatchedReturned /\ ret = "error")
        /\ call.failed <= 1

\* at most batchSize targets per chunk; one chunk when batchSize <= 0
ChunkSizesAsStated ==
    /\ args.batchSize > 0 => \A k \in 1..Len(log) : Len(Chunks[k]) <= args.batchSize
    /\ (args.batchSize <= 0 /\ BatchedReturned /\ ret = "nil")
           => Len(log) = (IF args.targets = <<>> THEN 0 ELSE 1)

\* the same, with one call per target for logs whatever the batch size
ChunkSizesButLogs ==
    /\ args.batchSize > 0 => \A k \in 1..Len(log) : Len(Chunks[k]) <= args.batchSize
    /\ args.verb = "logs" => \A k \in 1..Len(log) : Len(Chunks[k]) = 1
    /\ (args.verb # "logs" /\ args.batchSize <= 0 /\ BatchedReturned /\ ret = "nil")
           => Len(log) = (IF args.targets = <<>> THEN 0 ELSE 1)

\* C21 as stated: runBatched terminates and its runner calls partition the
\* targets into consecutive chunks in input order, each of at least one and at
\* most batchSize targets, every target in exactly one call; batchSize <= 0
\* gives one single chunk (no call for an empty list); the first call that
\* returns an error ends the sequence.
C21_BatchesPartitionTargets ==
    /\ [](ChunksInOrder /\ ErrorStops /\ ChunkSizesAsStated)
    /\ <>BatchedReturned

\* C21 amended: as stated for every verb but logs; for logs every target is
\* named by a call of its own whatever the batch size, so batchSize <= 0 gives
\* one call per target.
C21_BatchesPartitionTargetsButLogs ==
    /\ [](ChunksInOrder /\ ErrorStops /\ ChunkSizesButLogs)
    /\ <>BatchedReturned

\* C21 witness: three targets went out in a chunk of two and a chunk of one,
\* the second without headers.
C21_Witness_TwoThenOne ==
    /\ BatchedReturned
    /\ ret = "nil"
    /\ args.verb = "get"
    /\ args.batchSize = 2
    /\ Len(args.targets) = 3
    /\ Len(log) = 2
    /\ Len(Chunks[1]) = 2
    /\ Len(Chunks[2]) = 1

\* a token that sets kubectl's output format: -o, --output, -o=V, --output=V,
\* or the short flag with its value attached (-oV)
IsOutputFlag(f) == HasPrefix(f, "-o") \/ f = "--output" \/ HasPrefix(f, "--output=")

\* the flags without -o V, --output V, -o=V and --output=V; the token after
\* -o/--output is its value unless it is a flag itself
RECURSIVE WithoutOutputFlags(_)
WithoutOutputFlags(flags) ==
    IF flags = <<>> THEN <<>>
    ELSE IF Head(flags) \in {"-o", "--output"}
    THEN IF Len(flags) > 1 /\ ~HasPrefix(flags[2], "-")
         THEN WithoutOutputFlags(Tail(Tail(flags)))
         ELSE WithoutOutputFlags(Tail(flags))
    ELSE IF HasPrefix(Head(flags), "-o=") \/ HasPrefix(Head(flags), "--output=")
    THEN WithoutOutputFlags(Tail(flags))
    ELSE <<Head(flags)>> \o WithoutOutputFlags(Tail(flags))

DiscoveryCallMade == call.fn = "discoverNames"

\* C22: filterOutputFlags returns the flags with every output-format flag
\* (-o VALUE, --output VALUE, -o=VALUE, --output=VALUE) removed and the other
\* tokens kept in order, so the discovery call carries -o json as its only
\* output-format flag.
C22_DiscoveryCarriesOnlyJsonOutput ==
    DiscoveryCallMade =>
        /\ call.ret = WithoutOutputFlags(args.discoveryFlags)
        /\ SubSeq(call.sent.args, 1, 4) = <<"get", args.resource, "-o", "json">>
        /\ \A i \in 5..Len(call.sent.args) : ~IsOutputFlag(call.sent.args[i])

(***************************************************************************)
(* parseArgs (args.go): the verb, the optional resource and pattern, then  *)
(* the flags, plugin flags consumed and the others forwarded.              *)
(***************************************************************************)
defaultCLIOptions ==
    [Verb |-> "", Resource |-> "", Include |-> <<>>, Exclude |-> <<>>,
     Mode |-> "MatchGlob", IgnoreCase |-> FALSE, BatchSize |-> BatchSizeDefault,
     Yes |-> FALSE, DryRun |-> FALSE, NoColor |-> FALSE, Preview |-> "",
     DiscoveryFlags |-> <<>>, FinalFlags |-> <<>>,
     AllNamespaces |-> FALSE, Namespace |-> "", ExtraFinal |-> <<>>]

\* indexOf, 1-based; 0 when s is absent
indexOf(ss, s) ==
    IF \E i \in 1..Len(ss) : ss[i] = s
    THEN CHOOSE i \in 1..Len(ss) : ss[i] = s /\ \A j \in 1..(i - 1) : ss[j] # s
    ELSE 0

\* strconv.Atoi on the tokens in use: [ok, n]
Atoi(str) ==
    IF IsNumber(str) THEN [ok |-> TRUE, n |-> DecimalValue(str)] ELSE [ok |-> FALSE, n |-> 0]

\* the flag loop from index i (1-based) on: [err, opts]
RECURSIVE ParseFlags(_, _, _)
ParseFlags(flags, i, o) ==
    IF i > Len(flags) THEN [err |-> FALSE, opts |-> o]
    ELSE LET f == flags[i]
             hasValue == i + 1 <= Len(flags)
             Missing == [err |-> TRUE, opts |-> o]
         IN  CASE f = "--regex" -> ParseFlags(flags, i + 1, [o EXCEPT !.Mode = "MatchRegex"])
               [] f = "--contains" ->
                      ParseFlags(flags, i + 1, [o EXCEPT !.Mode = "MatchContains"])
               [] f \in {"--prefix", "-p"} ->
                      IF ~hasValue THEN Missing
                      ELSE ParseFlags(flags, i + 2,
                               [o EXCEPT !.Include = Append(@, flags[i + 1] \o "*")])
               [] f = "--ignore-case" -> ParseFlags(flags, i + 1, [o EXCEPT !.IgnoreCase = TRUE])
               [] f = "--no-color" -> ParseFlags(flags, i + 1, [o EXCEPT !.NoColor = TRUE])
               [] f = "--preview" ->
                      IF ~hasValue THEN Missing
                      ELSE ParseFlags(flags, i + 2, [o EXCEPT !.Preview = flags[i + 1]])
               [] f \in {"--yes", "-y"} -> ParseFlags(flags, i + 1, [o EXCEPT !.Yes = TRUE])
               [] f = "--dry-run" -> ParseFlags(flags, i + 1, [o EXCEPT !.DryRun = TRUE])
               [] f = "--match" ->
                      IF ~hasValue THEN Missing
                      ELSE ParseFlags(flags, i + 2,
                               [o EXCEPT !.Include = Append(@, flags[i + 1])])
               [] f = "--exclude" ->
                      IF ~hasValue THEN Missing
                      ELSE ParseFlags(flags, i + 2,
                               [o EXCEPT !.Exclude = Append(@, flags[i + 1])])
               [] f = "--batch-size" ->
                      IF ~hasValue THEN Missing
                      ELSE LET n == Atoi(flags[i + 1])
                           IN  IF ~n.ok \/ n.n <= 0 THEN Missing
                               ELSE ParseFlags(flags, i + 2, [o EXCEPT !.BatchSize = n.n])
               [] f \in {"-A", "--all-namespaces"} ->
                      ParseFlags(flags, i + 1,
                          [o EXCEPT !.AllNamespaces = TRUE,
                                    !.DiscoveryFlags = Append(@, f)])
               [] f \in {"-n", "--namespace"} ->
                      IF hasValue /\ ~HasPrefix(flags[i + 1], "-")
                      THEN ParseFlags(flags, i + 2,
                               [o EXCEPT !.Namespace = flags[i + 1],
                                         !.DiscoveryFlags = @ \o <<f, flags[i + 1]>>])
                      ELSE ParseFlags(flags, i + 1,
                               [o EXCEPT !.DiscoveryFlags = Append(@, f)])
               [] OTHER ->
                      ParseFlags(flags, i + 1,
                          [o EXCEPT !.DiscoveryFlags = Append(@, f),
                                    !.FinalFlags = Append(@, f)])

\* the default include after the flags, as the switch on the mode leaves it,
\* and the default dropped when an explicit include follows it
AdjustDefaultInclude(o, includeWasDefault) ==
    LET adjusted ==
            IF includeWasDefault /\ Len(o.Include) = 0
            THEN CASE o.Mode = "MatchGlob" -> <<"*">>
                   [] o.Mode = "MatchRegex" -> <<".*">>
                   [] o.Mode = "MatchContains" -> <<"">>
            ELSE o.Include
    IN  IF includeWasDefault /\ Len(adjusted) > 1 THEN Tail(adjusted) ELSE adjusted

\* parseArgs(argv), argv non-empty: [err, opts]
parseArgs(argv) ==
    IF argv[1] \notin {"get", "delete", "describe"}
    THEN [err |-> TRUE, opts |-> [defaultCLIOptions EXCEPT !.Verb = argv[1]]]
    ELSE LET cut == indexOf(argv, "--")
             head == IF cut > 0 THEN SubSeq(argv, 1, cut - 1) ELSE argv
             tail == IF cut > 0 THEN SubSeq(argv, cut + 1, Len(argv)) ELSE <<>>
             hasResource == Len(head) > 1 /\ ~HasPrefix(head[2], "-")
             resource == IF hasResource THEN head[2] ELSE "pods"
             idxAfterRes == IF hasResource THEN 2 ELSE 1
             hasPattern == Len(head) > idxAfterRes /\ ~HasPrefix(head[idxAfterRes + 1], "-")
             includeWasDefault == ~hasPattern
             flagsStart == Min2(IF hasPattern THEN idxAfterRes + 1 ELSE idxAfterRes, Len(head))
             flags == SubSeq(head, flagsStart + 1, Len(head))
             start == [defaultCLIOptions EXCEPT
                          !.Verb = argv[1], !.Resource = resource,
                          !.Include = IF hasPattern THEN <<head[idxAfterRes + 1]>>
                                      ELSE <<"*">>]
             parsed == ParseFlags(flags, 1, start)
         IN  IF parsed.err THEN parsed
             ELSE [err |-> FALSE,
                   opts |-> [parsed.opts EXCEPT
                                !.Include = AdjustDefaultInclude(parsed.opts,
                                                                 includeWasDefault),
                                !.ExtraFinal = tail]]

(***************************************************************************)
(* Specification SpecArgs: one call of parseArgs.                          *)
(***************************************************************************)
ArgvTokens == {"get", "pods", "a", "--regex", "--contains", "--match", "--prefix", "-p",
               "--", "-n"}

ParseArgsCalls ==
    [fn : {"parseArgs"}, argv : SeqsUpTo(ArgvTokens, MaxArgv) \ {<<>>}]

InitArgs ==
    /\ args \in ParseArgsCalls
    /\ call = NoCall
    /\ pool = {}
    /\ opts = DefaultOpts
    /\ matcher = NoMatcher
    /\ NoRun

CallParseArgs ==
    /\ args.fn = "parseArgs"
    /\ call = NoCall
    /\ call' = [fn |-> "parseArgs", ret |-> parseArgs(args.argv)]
    /\ UNCHANGED <<args, opts, matcher, pool, runVars>>

NextArgs == CallParseArgs

SpecArgs == InitArgs /\ [][NextArgs]_vars

\* the includes the flags give, in order: each --match value and VAL* for
\* each --prefix/-p VAL; the values of the other value flags are passed over
RECURSIVE ExplicitIncludes(_)
ExplicitIncludes(flags) ==
    IF flags = <<>> THEN <<>>
    ELSE LET f == Head(flags)
             hasValue == Len(flags) > 1
         IN  IF f = "--match" /\ hasValue
             THEN <<flags[2]>> \o ExplicitIncludes(Tail(Tail(flags)))
             ELSE IF f \in {"--prefix", "-p"} /\ hasValue
             THEN <<flags[2] \o "*">> \o ExplicitIncludes(Tail(Tail(flags)))
             ELSE IF \/ f \in {"--exclude", "--preview", "--batch-size"} /\ hasValue
                     \/ f \in {"-n", "--namespace"} /\ hasValue /\ ~HasPrefix(flags[2], "-")
             THEN ExplicitIncludes(Tail(Tail(flags)))
             ELSE ExplicitIncludes(Tail(flags))

\* the pattern that matches every name in a mode
MatchAllPattern(mode) ==
    CASE mode = "MatchGlob" -> "*"
      [] mode = "MatchRegex" -> ".*"
      [] mode = "MatchContains" -> ""

\* the include list C23 states for an argument vector and the final mode
StatedInclude(argv, mode) ==
    LET cut == indexOf(argv, "--")
        head == IF cut > 0 THEN SubSeq(argv, 1, cut - 1) ELSE argv
        rest == Tail(head)
        afterResource == IF rest # <<>> /\ ~HasPrefix(rest[1], "-") THEN Tail(rest) ELSE rest
        positional == IF afterResource # <<>> /\ ~HasPrefix(afterResource[1], "-")
                      THEN <<afterResource[1]>> ELSE <<>>
        flags == IF positional # <<>> THEN Tail(afterResource) ELSE afterResource
        explicit == positional \o ExplicitIncludes(flags)
    IN  IF explicit # <<>> THEN explicit ELSE <<MatchAllPattern(mode)>>

ArgvAccepted == call.fn = "parseArgs" /\ ~call.ret.err

\* C23: for every argv parseArgs accepts, Include is the positional pattern
\* (when present) followed in order by each --match value and VAL* for each
\* --prefix/-p VAL; when none is given it is the single default pattern of
\* the finally selected mode ('*' Glob, '.*' Regex, '' Contains); Include is
\* never empty.
C23_IncludeIsExplicitOrModeDefault ==
    ArgvAccepted =>
        /\ call.ret.opts.Include = StatedInclude(args.argv, call.ret.opts.Mode)
        /\ call.ret.opts.Include # <<>>

\* the names under which the tool lists pods (runTopVerb's switch)
PodResourceNames == {"pods", "pod", "po"}

\* the pod-health steps as they apply to a pods listing
PassesPodHealth(o, r) ==
    LET asPods == [o EXCEPT !.Resource = "pods"]
    IN  /\ PodStatusStage(asPods, r)
        /\ RestartStage(asPods, r)
        /\ NotReadyStage(asPods, r)
        /\ ReasonStage(asPods, r)
        /\ UnhealthyStage(asPods, r)

\* C24: whenever the listed resource is pods, under the name 'pods', 'pod' or
\* 'po', the pod-health steps are applied to every candidate: a pod that
\* fails a configured pod-health filter is never in the matched set.
C24_PodHealthAppliedUnderEveryPodName ==
    opts.Resource \in PodResourceNames =>
        \A i \in Processed : Kept(i) => PassesPodHealth(opts, refs[i])

\* runCommand took the passthrough path: its one runner call is the
\* passthrough call
PassthroughTaken == log = <<runVerbPassthrough(opts)>>

\* the discovery-and-filter path keeps every candidate the cluster holds
FilterPathKeepsAll ==
    /\ ~CompilePanics(opts)
    /\ \A i \in 1..Len(items) :
           Keeps(opts, BuildMatcher(opts), ToNameRef(items[i]), Now)

\* C25: runCommand passes the request straight through to kubectl only when
\* the discovery-and-filter path would have kept every discovered candidate.
C25_PassthroughOnlyWhenNothingFiltered ==
    PassthroughTaken => FilterPathKeepsAll

\* the calls of the final verb in the log
IsVerbCall(e) ==
    e.kind = "call" /\ e.fn = "RunKubectl" /\ Len(e.args) > 1 /\ e.args[1] = opts.Verb
VerbCalls == {i \in 1..Len(log) : IsVerbCall(log[i])}

\* the positions of -n in a call, the namespace it carries and the names
\* before it
NamespaceFlagsOf(e) == {j \in 1..Len(e.args) : e.args[j] = "-n"}
NamespaceOf(e) == e.args[(CHOOSE j \in NamespaceFlagsOf(e) : TRUE) + 1]
TargetsOf(e) ==
    {e.args[j] : j \in 3..((CHOOSE k \in NamespaceFlagsOf(e) : TRUE) - 1)}

MatchedPairs == {<<matched[k].ns, matched[k].name>> : k \in 1..Len(matched)}

\* the calls that target a pair
CallsTargeting(pair) ==
    {i \in VerbCalls : NamespaceOf(log[i]) = pair[1] /\ pair[2] \in TargetsOf(log[i])}

PerNamespaceRun ==
    /\ opts.Verb \in {"describe", "delete"}
    /\ opts.AllNamespaces
    /\ ToLower(opts.Resource) \in DOMAIN resourceScopeCache
    /\ CachedScope(resourceScopeCache, opts.Resource)

EditDistanceRowMin(a, b, i) ==
    LET ds == {EditDistance(SubSeq(a, 1, i), SubSeq(b, 1, j)) : j \in 0..Len(b)}
    IN  CHOOSE d \in ds : \A e \in ds : d <= e

\* the call was decided by the length-difference shortcut
ByLengthShortcut ==
    /\ args.a # args.b
    /\ Len(args.a) # 0
    /\ Len(args.b) # 0
    /\ AbsDiff(Len(args.a), Len(args.b)) > args.maxDist

\* the call went through the rows and left by the row-minimum early exit
ByEarlyExit ==
    /\ BoundedUsesPool(args.a, args.b, args.maxDist)
    /\ \E i \in 1..Len(args.a) :
           EditDistanceRowMin(args.a, args.b, i) > args.maxDist

\* C27: levenshteinBounded(a, b, maxDist) <= maxDist exactly when
\* levenshtein(a, b) <= maxDist, and then the value returned is the true
\* distance; neither the length shortcut nor the early exit changes a hit
\* into a miss or a miss into a hit.
C27_BoundedDecidesLikeTrueDistance ==
    call.fn = "levenshteinBounded" =>
        \E plain \in {levenshtein(args.a, args.b)}, true \in {EditDistance(args.a, args.b)} :
            /\ (call.ret <= args.maxDist) <=> (plain <= args.maxDist)
            /\ (call.ret <= args.maxDist) <=> (true <= args.maxDist)
            /\ (call.ret <= args.maxDist) => (call.ret = plain /\ call.ret = true)
            /\ ByLengthShortcut => (call.ret > args.maxDist /\ true > args.maxDist)

\* C27 witness: strings of equal length 3 whose distance is above maxDist = 1
\* left the loop early with maxDist + 1.
C27_Witness_EarlyExitOnTooFarPair ==
    /\ call.fn = "levenshteinBounded"
    /\ Len(args.a) = 3
    /\ Len(args.b) = 3
    /\ args.maxDist = 1
    /\ ByEarlyExit
    /\ levenshtein(args.a, args.b) > 1
    /\ call.ret = 2

\* byKey as LabelsAllowed built it on every call before the grouping moved
\* into runCommand: every filter appended under its key
GroupAtEvaluation(filters) ==
    [key \in {filters[i].Key : i \in 1..Len(filters)} |->
        LET OfKey(f) == f.Key = key IN SelectSeq2(filters, OfKey)]

\* LabelsAllowed (AnnotationsAllowed) with the grouping done per call; a nil
\* map holds no key
AllowedGroupingPerCall(filters, keyRegex, labels) ==
    IF Len(filters) = 0 /\ Len(keyRegex) = 0 THEN TRUE
    ELSE /\ \A key \in DOMAIN GroupAtEvaluation(filters) :
                /\ ~labels.isNil
                /\ key \in DOMAIN labels.m
                /\ MatchedAny(GroupAtEvaluation(filters)[key], labels.m[key], 1)
         /\ \A i \in 1..Len(keyRegex) :
                /\ ~labels.isNil
                /\ \E k \in DOMAIN labels.m : MatchString(keyRegex[i], k)

\* C28: for every list of label filters and every label map, nil included,
\* LabelsAllowed of the Matcher runCommand builds (duplicate-key flag,
\* pre-grouped map, direct path when no key repeats) decides as grouping the
\* filters by key at evaluation time does; likewise AnnotationsAllowed.
C28_PrecomputedGroupingDecidesAsPerCall ==
    /\ call.fn = "LabelsAllowed" =>
           call.ret = AllowedGroupingPerCall(matcher.LabelFilters,
                                             matcher.LabelKeyRegex, args.labels)
    /\ call.fn = "AnnotationsAllowed" =>
           call.ret = AllowedGroupingPerCall(matcher.AnnotationFilters,
                                             matcher.AnnotationKeyRegex,
                                             args.annotations)

\* C28 witness: two filters on the key app, the first rejecting the value and
\* the second accepting it, and LabelsAllowed returned true through the
\* pre-grouped map.
C28_Witness_SecondOfRepeatedKeyAccepts ==
    /\ call.fn = "LabelsAllowed"
    /\ matcher.LabelFiltersHaveDuplicates
    /\ Len(matcher.LabelFilters) = 2
    /\ "app" \in DOMAIN args.labels.m
    /\ ~labelValueMatches(args.labels.m["app"], matcher.LabelFilters[1])
    /\ labelValueMatches(args.labels.m["app"], matcher.LabelFilters[2])
    /\ call.ret

\* the entries of an exact list
EntriesOf(exact) == {exact[i] : i \in 1..Len(exact)}

\* is the index built for exactly the lists of 4 or more entries, holding
\* exactly their entries?
IndexAsStated(exact, exactMap) ==
    /\ ~exactMap.isNil <=> Len(exact) >= 4
    /\ ~exactMap.isNil => exactMap.keys = EntriesOf(exact)

\* C29: the exact-match index is built exactly when the exact list has 4 or
\* more entries and then holds exactly its entries; NamespaceAllowed with
\* NsExactMap returns what the linear scan over NsExact returns, and
\* nodeAllowedFast with nodeExactMap returns what nodeAllowed returns.
C29_ExactIndexDecidesAsLinearScan ==
    /\ IndexAsStated(opts.NsExact, matcher.NsExactMap)
    /\ call.fn = "NamespaceAllowed" =>
           call.ret = NamespaceAllowed([matcher EXCEPT !.NsExactMap = NilSet], args.ns)
    /\ call.fn = "nodeAllowedFast" =>
           /\ IndexAsStated(opts.NodeExact, call.nodeExactMap)
           /\ call.ret = nodeAllowed(args.node, opts.NodeExact, opts.NodePrefix,
                                     SeqMap(Compile, opts.NodeRegex))

\* C29 witness: five exact node names with repeats, the index built, and the
\* node accepted only as the last entry of the list.
C29_Witness_LastEntryThroughIndex ==
    /\ call.fn = "nodeAllowedFast"
    /\ Len(opts.NodeExact) = 5
    /\ ~call.nodeExactMap.isNil
    /\ args.node = opts.NodeExact[5]
    /\ \A i \in 1..4 : opts.NodeExact[i] # args.node
    /\ ~\E i \in 1..Len(opts.NodePrefix) : HasPrefix(args.node, opts.NodePrefix[i])
    /\ Len(opts.NodeRegex) = 0
    /\ call.ret

(***************************************************************************)
(* Specification SpecPool: any sequence of levenshtein and                  *)
(* levenshteinBounded calls sharing levenshteinPool, each on arguments of   *)
(* its own.  The rows are sized by b alone: two of the strings b ranges     *)
(* over are longer than the rows the pool starts with, so that rows are     *)
(* reallocated and come back longer than a later call needs.                *)
(***************************************************************************)
RECURSIVE Repeat(_, _)
Repeat(c, n) == IF n = 0 THEN "" ELSE c \o Repeat(c, n - 1)

\* len(b)+1 exceeds the initial capacity from PoolInitCap characters on
LongStrings == {Repeat("a", PoolInitCap - 1) \o "bb"}
ShortStrings == {"ab", "ba"}
PoolStrings == ShortStrings \cup LongStrings

InitPool ==
    /\ args = [a |-> "", b |-> "", maxDist |-> 0, calls |-> 0]
    /\ pool = {}
    /\ call = NoCall
    /\ opts = DefaultOpts
    /\ matcher = NoMatcher
    /\ NoRun

\* one call of levenshteinBounded: what it took from the pool, the rows as
\* they were sliced, and what it put back
PooledLevenshteinBounded ==
    \E a \in ShortStrings, b \in PoolStrings, maxDist \in 0..MaxDist :
        /\ args.calls < MaxCalls
        /\ args' = [a |-> a, b |-> b, maxDist |-> maxDist, calls |-> args.calls + 1]
        /\ IF BoundedUsesPool(a, b, maxDist)
           THEN \E taken \in PoolGet :
                    \E r \in {levenshteinBoundedOn(taken, a, b, maxDist)} :
                        /\ pool' \in PoolPut(taken, r.rows)
                        /\ call' = [fn |-> "levenshteinBounded", ret |-> r.ret,
                                    took |-> TRUE,
                                    sliced |-> EnsureRows(taken, Len(b) + 1),
                                    put |-> {r.rows}]
           ELSE /\ pool' = pool
                /\ call' = [fn |-> "levenshteinBounded",
                            ret |-> levenshteinBoundedOn(NewRows, a, b, maxDist).ret,
                            took |-> FALSE, sliced |-> NewRows, put |-> {}]
        /\ UNCHANGED <<opts, matcher, runVars>>

PooledLevenshtein ==
    \E a \in ShortStrings, b \in PoolStrings :
        /\ args.calls < MaxCalls
        /\ args' = [a |-> a, b |-> b, maxDist |-> 0, calls |-> args.calls + 1]
        /\ IF PlainUsesPool(a, b)
           THEN \E taken \in PoolGet :
                    \E r \in {levenshteinOn(taken, a, b)} :
                        /\ pool' \in PoolPut(taken, r.rows)
                        /\ call' = [fn |-> "levenshtein", ret |-> r.ret,
                                    took |-> TRUE,
                                    sliced |-> EnsureRows(taken, Len(b) + 1),
                                    put |-> {r.rows}]
           ELSE /\ pool' = pool
                /\ call' = [fn |-> "levenshtein",
                            ret |-> levenshteinOn(NewRows, a, b).ret,
                            took |-> FALSE, sliced |-> NewRows, put |-> {}]
        /\ UNCHANGED <<opts, matcher, runVars>>

NextPool == PooledLevenshteinBounded \/ PooledLevenshtein

SpecPool == InitPool /\ [][NextPool]_vars

\* what the call returns on freshly allocated rows
OnFreshRows ==
    IF call.fn = "levenshteinBounded"
    THEN levenshteinBounded(args.a, args.b, args.maxDist)
    ELSE levenshtein(args.a, args.b)

\* C30: in any sequence of levenshtein and levenshteinBounded calls sharing
\* levenshteinPool each call returns what it returns on freshly allocated
\* rows; the two rows have equal capacity of at least len(b)+1 when they are
\* sliced; and every call that took rows from the pool put them back.
C30_PooledRowsNeverShowInResult ==
    call # NoCall =>
        /\ call.ret = OnFreshRows
        /\ call.took =>
               /\ Len(call.sliced.prev) = Len(call.sliced.curr)
               /\ Len(call.sliced.prev) >= Len(args.b) + 1
               /\ call.put # {}
               /\ call.put \subseteq pool
        /\ \A rows \in pool : Len(rows.prev) = Len(rows.curr)

\* C30 witness: a call on a short b took rows an earlier call on a long
\* string had grown and left filled, and returned the distance 2.
C30_Witness_ShortCallOnGrownRows ==
    /\ call # NoCall
    /\ call.took
    /\ args.a = "ab"
    /\ args.b = "ba"
    /\ Len(call.sliced.prev) > PoolInitCap
    /\ \E rows \in call.put : rows.prev[PoolInitCap] # 0 \/ rows.curr[PoolInitCap] # 0
    /\ call.ret = 2
====
